---- MODULE Spec2Model ----
(***************************************************************************)
(* A model of mlir/lib/ExecutionEngine/SparseTensorRuntime.cpp: the C-API  *)
(* wrappers of the sparse tensor runtime support library.  The model has   *)
(* two parts.  The first is the type-tag dispatch of                       *)
(* _mlir_ciface_newSparseTensor and _mlir_ciface_newSparseTensorFromReader *)
(* (the CASE chains).  The second is the heap of objects the entry points  *)
(* create, mutate and release, addressed by opaque handles.                *)
(***************************************************************************)
EXTENDS Integers, Sequences, FiniteSets, TLC

VARIABLES
    call,       \* the arguments of the dispatcher call under examination
    res,        \* its outcome ("pending" before the call is made)
    heap,       \* the object at each address (storage, coordinate list, ...)
    handles,    \* the addresses the caller has been handed and not released
    last,       \* the entry point called last, its arguments and its result
    running,    \* FALSE once MLIR_SPARSETENSOR_FATAL has ended the process
    inserted,   \* per live address: what the storage instance was given, in
                \* order (the list kFromCOO built it from, then every
                \* insertion): <<coordinates, value, whether the instance was open>>
    nextLog     \* per live address: the flags getNext has returned for the iterator

dispatchVars == <<call, res>>

heapVars == <<heap, handles, last, running, inserted, nextLog>>

vars == <<call, res, heap, handles, last, running, inserted, nextLog>>

(***************************************************************************)
(* Type tags (OverheadType, PrimaryType, Action).  "kBad" stands for an    *)
(* enumerator value outside the enumeration, which a caller can pass       *)
(* because the tags cross the C ABI as integers.                           *)
(***************************************************************************)
OverheadTypes == {"kIndex", "kU64", "kU32", "kU16", "kU8"}

PrimaryTypes ==
    {"kF64", "kF32", "kF16", "kBF16", "kI64", "kI32", "kI16", "kI8", "kC64", "kC32"}

Actions ==
    {"kEmpty", "kFromCOO", "kSparseToSparse", "kEmptyCOO", "kToCOO", "kToIterator", "kPack"}

OverheadTags == OverheadTypes \cup {"kBad"}

PrimaryTags == PrimaryTypes \cup {"kBad"}

ActionTags == Actions \cup {"kBad"}

(* A faulty variant: newSparseTensorCases with one more CASE line, for     *)
(* (kU64, kU32, kI8).                                                      *)
newSparseTensorCases_ExtraCase ==
<<
    <<"kU64", "kU32", "kI8", "uint64_t", "uint32_t", "int8_t">>,
    <<"kU64", "kU64", "kF64", "uint64_t", "uint64_t", "double">>,
    <<"kU64", "kU32", "kF64", "uint64_t", "uint32_t", "double">>,
    <<"kU64", "kU16", "kF64", "uint64_t", "uint16_t", "double">>,
    <<"kU64", "kU8", "kF64", "uint64_t", "uint8_t", "double">>,
    <<"kU32", "kU64", "kF64", "uint32_t", "uint64_t", "double">>,
    <<"kU32", "kU32", "kF64", "uint32_t", "uint32_t", "double">>,
    <<"kU32", "kU16", "kF64", "uint32_t", "uint16_t", "double">>,
    <<"kU32", "kU8", "kF64", "uint32_t", "uint8_t", "double">>,
    <<"kU16", "kU64", "kF64", "uint16_t", "uint64_t", "double">>,
    <<"kU16", "kU32", "kF64", "uint16_t", "uint32_t", "double">>,
    <<"kU16", "kU16", "kF64", "uint16_t", "uint16_t", "double">>,
    <<"kU16", "kU8", "kF64", "uint16_t", "uint8_t", "double">>,
    <<"kU8", "kU64", "kF64", "uint8_t", "uint64_t", "double">>,
    <<"kU8", "kU32", "kF64", "uint8_t", "uint32_t", "double">>,
    <<"kU8", "kU16", "kF64", "uint8_t", "uint16_t", "double">>,
    <<"kU8", "kU8", "kF64", "uint8_t", "uint8_t", "double">>,
    <<"kU64", "kU64", "kF32", "uint64_t", "uint64_t", "float">>,
    <<"kU64", "kU32", "kF32", "uint64_t", "uint32_t", "float">>,
    <<"kU64", "kU16", "kF32", "uint64_t", "uint16_t", "float">>,
    <<"kU64", "kU8", "kF32", "uint64_t", "uint8_t", "float">>,
    <<"kU32", "kU64", "kF32", "uint32_t", "uint64_t", "float">>,
    <<"kU32", "kU32", "kF32", "uint32_t", "uint32_t", "float">>,
    <<"kU32", "kU16", "kF32", "uint32_t", "uint16_t", "float">>,
    <<"kU32", "kU8", "kF32", "uint32_t", "uint8_t", "float">>,
    <<"kU16", "kU64", "kF32", "uint16_t", "uint64_t", "float">>,
    <<"kU16", "kU32", "kF32", "uint16_t", "uint32_t", "float">>,
    <<"kU16", "kU16", "kF32", "uint16_t", "uint16_t", "float">>,
    <<"kU16", "kU8", "kF32", "uint16_t", "uint8_t", "float">>,
    <<"kU8", "kU64", "kF32", "uint8_t", "uint64_t", "float">>,
    <<"kU8", "kU32", "kF32", "uint8_t", "uint32_t", "float">>,
    <<"kU8", "kU16", "kF32", "uint8_t", "uint16_t", "float">>,
    <<"kU8", "kU8", "kF32", "uint8_t", "uint8_t", "float">>,
    <<"kU64", "kU64", "kF16", "uint64_t", "uint64_t", "f16">>,
    <<"kU64", "kU64", "kBF16", "uint64_t", "uint64_t", "bf16">>,
    <<"kU32", "kU32", "kF16", "uint32_t", "uint32_t", "f16">>,
    <<"kU32", "kU32", "kBF16", "uint32_t", "uint32_t", "bf16">>,
    <<"kU16", "kU16", "kF16", "uint16_t", "uint16_t", "f16">>,
    <<"kU16", "kU16", "kBF16", "uint16_t", "uint16_t", "bf16">>,
    <<"kU8", "kU8", "kF16", "uint8_t", "uint8_t", "f16">>,
    <<"kU8", "kU8", "kBF16", "uint8_t", "uint8_t", "bf16">>,
    <<"kU64", "kU64", "kI64", "uint64_t", "uint64_t", "int64_t">>,
    <<"kU64", "kU64", "kI32", "uint64_t", "uint64_t", "int32_t">>,
    <<"kU64", "kU64", "kI16", "uint64_t", "uint64_t", "int16_t">>,
    <<"kU64", "kU64", "kI8", "uint64_t", "uint64_t", "int8_t">>,
    <<"kU32", "kU32", "kI64", "uint32_t", "uint32_t", "int64_t">>,
    <<"kU32", "kU32", "kI32", "uint32_t", "uint32_t", "int32_t">>,
    <<"kU32", "kU32", "kI16", "uint32_t", "uint32_t", "int16_t">>,
    <<"kU32", "kU32", "kI8", "uint32_t", "uint32_t", "int8_t">>,
    <<"kU16", "kU16", "kI64", "uint16_t", "uint16_t", "int64_t">>,
    <<"kU16", "kU16", "kI32", "uint16_t", "uint16_t", "int32_t">>,
    <<"kU16", "kU16", "kI16", "uint16_t", "uint16_t", "int16_t">>,
    <<"kU16", "kU16", "kI8", "uint16_t", "uint16_t", "int8_t">>,
    <<"kU8", "kU8", "kI64", "uint8_t", "uint8_t", "int64_t">>,
    <<"kU8", "kU8", "kI32", "uint8_t", "uint8_t", "int32_t">>,
    <<"kU8", "kU8", "kI16", "uint8_t", "uint8_t", "int16_t">>,
    <<"kU8", "kU8", "kI8", "uint8_t", "uint8_t", "int8_t">>,
    <<"kU64", "kU64", "kC64", "uint64_t", "uint64_t", "complex64">>,
    <<"kU64", "kU64", "kC32", "uint64_t", "uint64_t", "complex32">>
>>

(* A faulty variant: newSparseTensorCases whose (kU32, kU32, kI32) line    *)
(* instantiates 64-bit overhead types.                                     *)
newSparseTensorCases_Widened ==
<<
    <<"kU64", "kU64", "kF64", "uint64_t", "uint64_t", "double">>,
    <<"kU64", "kU32", "kF64", "uint64_t", "uint32_t", "double">>,
    <<"kU64", "kU16", "kF64", "uint64_t", "uint16_t", "double">>,
    <<"kU64", "kU8", "kF64", "uint64_t", "uint8_t", "double">>,
    <<"kU32", "kU64", "kF64", "uint32_t", "uint64_t", "double">>,
    <<"kU32", "kU32", "kF64", "uint32_t", "uint32_t", "double">>,
    <<"kU32", "kU16", "kF64", "uint32_t", "uint16_t", "double">>,
    <<"kU32", "kU8", "kF64", "uint32_t", "uint8_t", "double">>,
    <<"kU16", "kU64", "kF64", "uint16_t", "uint64_t", "double">>,
    <<"kU16", "kU32", "kF64", "uint16_t", "uint32_t", "double">>,
    <<"kU16", "kU16", "kF64", "uint16_t", "uint16_t", "double">>,
    <<"kU16", "kU8", "kF64", "uint16_t", "uint8_t", "double">>,
    <<"kU8", "kU64", "kF64", "uint8_t", "uint64_t", "double">>,
    <<"kU8", "kU32", "kF64", "uint8_t", "uint32_t", "double">>,
    <<"kU8", "kU16", "kF64", "uint8_t", "uint16_t", "double">>,
    <<"kU8", "kU8", "kF64", "uint8_t", "uint8_t", "double">>,
    <<"kU64", "kU64", "kF32", "uint64_t", "uint64_t", "float">>,
    <<"kU64", "kU32", "kF32", "uint64_t", "uint32_t", "float">>,
    <<"kU64", "kU16", "kF32", "uint64_t", "uint16_t", "float">>,
    <<"kU64", "kU8", "kF32", "uint64_t", "uint8_t", "float">>,
    <<"kU32", "kU64", "kF32", "uint32_t", "uint64_t", "float">>,
    <<"kU32", "kU32", "kF32", "uint32_t", "uint32_t", "float">>,
    <<"kU32", "kU16", "kF32", "uint32_t", "uint16_t", "float">>,
    <<"kU32", "kU8", "kF32", "uint32_t", "uint8_t", "float">>,
    <<"kU16", "kU64", "kF32", "uint16_t", "uint64_t", "float">>,
    <<"kU16", "kU32", "kF32", "uint16_t", "uint32_t", "float">>,
    <<"kU16", "kU16", "kF32", "uint16_t", "uint16_t", "float">>,
    <<"kU16", "kU8", "kF32", "uint16_t", "uint8_t", "float">>,
    <<"kU8", "kU64", "kF32", "uint8_t", "uint64_t", "float">>,
    <<"kU8", "kU32", "kF32", "uint8_t", "uint32_t", "float">>,
    <<"kU8", "kU16", "kF32", "uint8_t", "uint16_t", "float">>,
    <<"kU8", "kU8", "kF32", "uint8_t", "uint8_t", "float">>,
    <<"kU64", "kU64", "kF16", "uint64_t", "uint64_t", "f16">>,
    <<"kU64", "kU64", "kBF16", "uint64_t", "uint64_t", "bf16">>,
    <<"kU32", "kU32", "kF16", "uint32_t", "uint32_t", "f16">>,
    <<"kU32", "kU32", "kBF16", "uint32_t", "uint32_t", "bf16">>,
    <<"kU16", "kU16", "kF16", "uint16_t", "uint16_t", "f16">>,
    <<"kU16", "kU16", "kBF16", "uint16_t", "uint16_t", "bf16">>,
    <<"kU8", "kU8", "kF16", "uint8_t", "uint8_t", "f16">>,
    <<"kU8", "kU8", "kBF16", "uint8_t", "uint8_t", "bf16">>,
    <<"kU64", "kU64", "kI64", "uint64_t", "uint64_t", "int64_t">>,
    <<"kU64", "kU64", "kI32", "uint64_t", "uint64_t", "int32_t">>,
    <<"kU64", "kU64", "kI16", "uint64_t", "uint64_t", "int16_t">>,
    <<"kU64", "kU64", "kI8", "uint64_t", "uint64_t", "int8_t">>,
    <<"kU32", "kU32", "kI64", "uint32_t", "uint32_t", "int64_t">>,
    <<"kU32", "kU32", "kI32", "uint64_t", "uint64_t", "int32_t">>,
    <<"kU32", "kU32", "kI16", "uint32_t", "uint32_t", "int16_t">>,
    <<"kU32", "kU32", "kI8", "uint32_t", "uint32_t", "int8_t">>,
    <<"kU16", "kU16", "kI64", "uint16_t", "uint16_t", "int64_t">>,
    <<"kU16", "kU16", "kI32", "uint16_t", "uint16_t", "int32_t">>,
    <<"kU16", "kU16", "kI16", "uint16_t", "uint16_t", "int16_t">>,
    <<"kU16", "kU16", "kI8", "uint16_t", "uint16_t", "int8_t">>,
    <<"kU8", "kU8", "kI64", "uint8_t", "uint8_t", "int64_t">>,
    <<"kU8", "kU8", "kI32", "uint8_t", "uint8_t", "int32_t">>,
    <<"kU8", "kU8", "kI16", "uint8_t", "uint8_t", "int16_t">>,
    <<"kU8", "kU8", "kI8", "uint8_t", "uint8_t", "int8_t">>,
    <<"kU64", "kU64", "kC64", "uint64_t", "uint64_t", "complex64">>,
    <<"kU64", "kU64", "kC32", "uint64_t", "uint64_t", "complex32">>
>>

(***************************************************************************)
(* The CASE / CASE_SECSAME lines of _mlir_ciface_newSparseTensor, in       *)
(* source order.  Each is <<p, c, v, P, C, V>>: the three tags the CASE    *)
(* compares against and the three template arguments it instantiates.      *)
(* CASE_SECSAME(p, v, P, V) is written out as CASE(p, p, v, P, P, V).      *)
(***************************************************************************)
newSparseTensorCases ==
<<
    <<"kU64", "kU64", "kF64", "uint64_t", "uint64_t", "double">>,
    <<"kU64", "kU32", "kF64", "uint64_t", "uint32_t", "double">>,
    <<"kU64", "kU16", "kF64", "uint64_t", "uint16_t", "double">>,
    <<"kU64", "kU8", "kF64", "uint64_t", "uint8_t", "double">>,
    <<"kU32", "kU64", "kF64", "uint32_t", "uint64_t", "double">>,
    <<"kU32", "kU32", "kF64", "uint32_t", "uint32_t", "double">>,
    <<"kU32", "kU16", "kF64", "uint32_t", "uint16_t", "double">>,
    <<"kU32", "kU8", "kF64", "uint32_t", "uint8_t", "double">>,
    <<"kU16", "kU64", "kF64", "uint16_t", "uint64_t", "double">>,
    <<"kU16", "kU32", "kF64", "uint16_t", "uint32_t", "double">>,
    <<"kU16", "kU16", "kF64", "uint16_t", "uint16_t", "double">>,
    <<"kU16", "kU8", "kF64", "uint16_t", "uint8_t", "double">>,
    <<"kU8", "kU64", "kF64", "uint8_t", "uint64_t", "double">>,
    <<"kU8", "kU32", "kF64", "uint8_t", "uint32_t", "double">>,
    <<"kU8", "kU16", "kF64", "uint8_t", "uint16_t", "double">>,
    <<"kU8", "kU8", "kF64", "uint8_t", "uint8_t", "double">>,
    <<"kU64", "kU64", "kF32", "uint64_t", "uint64_t", "float">>,
    <<"kU64", "kU32", "kF32", "uint64_t", "uint32_t", "float">>,
    <<"kU64", "kU16", "kF32", "uint64_t", "uint16_t", "float">>,
    <<"kU64", "kU8", "kF32", "uint64_t", "uint8_t", "float">>,
    <<"kU32", "kU64", "kF32", "uint32_t", "uint64_t", "float">>,
    <<"kU32", "kU32", "kF32", "uint32_t", "uint32_t", "float">>,
    <<"kU32", "kU16", "kF32", "uint32_t", "uint16_t", "float">>,
    <<"kU32", "kU8", "kF32", "uint32_t", "uint8_t", "float">>,
    <<"kU16", "kU64", "kF32", "uint16_t", "uint64_t", "float">>,
    <<"kU16", "kU32", "kF32", "uint16_t", "uint32_t", "float">>,
    <<"kU16", "kU16", "kF32", "uint16_t", "uint16_t", "float">>,
    <<"kU16", "kU8", "kF32", "uint16_t", "uint8_t", "float">>,
    <<"kU8", "kU64", "kF32", "uint8_t", "uint64_t", "float">>,
    <<"kU8", "kU32", "kF32", "uint8_t", "uint32_t", "float">>,
    <<"kU8", "kU16", "kF32", "uint8_t", "uint16_t", "float">>,
    <<"kU8", "kU8", "kF32", "uint8_t", "uint8_t", "float">>,
    <<"kU64", "kU64", "kF16", "uint64_t", "uint64_t", "f16">>,
    <<"kU64", "kU64", "kBF16", "uint64_t", "uint64_t", "bf16">>,
    <<"kU32", "kU32", "kF16", "uint32_t", "uint32_t", "f16">>,
    <<"kU32", "kU32", "kBF16", "uint32_t", "uint32_t", "bf16">>,
    <<"kU16", "kU16", "kF16", "uint16_t", "uint16_t", "f16">>,
    <<"kU16", "kU16", "kBF16", "uint16_t", "uint16_t", "bf16">>,
    <<"kU8", "kU8", "kF16", "uint8_t", "uint8_t", "f16">>,
    <<"kU8", "kU8", "kBF16", "uint8_t", "uint8_t", "bf16">>,
    <<"kU64", "kU64", "kI64", "uint64_t", "uint64_t", "int64_t">>,
    <<"kU64", "kU64", "kI32", "uint64_t", "uint64_t", "int32_t">>,
    <<"kU64", "kU64", "kI16", "uint64_t", "uint64_t", "int16_t">>,
    <<"kU64", "kU64", "kI8", "uint64_t", "uint64_t", "int8_t">>,
    <<"kU32", "kU32", "kI64", "uint32_t", "uint32_t", "int64_t">>,
    <<"kU32", "kU32", "kI32", "uint32_t", "uint32_t", "int32_t">>,
    <<"kU32", "kU32", "kI16", "uint32_t", "uint32_t", "int16_t">>,
    <<"kU32", "kU32", "kI8", "uint32_t", "uint32_t", "int8_t">>,
    <<"kU16", "kU16", "kI64", "uint16_t", "uint16_t", "int64_t">>,
    <<"kU16", "kU16", "kI32", "uint16_t", "uint16_t", "int32_t">>,
    <<"kU16", "kU16", "kI16", "uint16_t", "uint16_t", "int16_t">>,
    <<"kU16", "kU16", "kI8", "uint16_t", "uint16_t", "int8_t">>,
    <<"kU8", "kU8", "kI64", "uint8_t", "uint8_t", "int64_t">>,
    <<"kU8", "kU8", "kI32", "uint8_t", "uint8_t", "int32_t">>,
    <<"kU8", "kU8", "kI16", "uint8_t", "uint8_t", "int16_t">>,
    <<"kU8", "kU8", "kI8", "uint8_t", "uint8_t", "int8_t">>,
    <<"kU64", "kU64", "kC64", "uint64_t", "uint64_t", "complex64">>,
    <<"kU64", "kU64", "kC32", "uint64_t", "uint64_t", "complex32">>
>>

(* A faulty variant: newSparseTensorFromReaderCases without its last line,  *)
(* the CASE for (kU64, kU64, kC32).                                        *)
newSparseTensorFromReaderCases_NoComplex32 ==
<<
    <<"kU64", "kU64", "kF64", "uint64_t", "uint64_t", "double">>,
    <<"kU64", "kU32", "kF64", "uint64_t", "uint32_t", "double">>,
    <<"kU64", "kU16", "kF64", "uint64_t", "uint16_t", "double">>,
    <<"kU64", "kU8", "kF64", "uint64_t", "uint8_t", "double">>,
    <<"kU32", "kU64", "kF64", "uint32_t", "uint64_t", "double">>,
    <<"kU32", "kU32", "kF64", "uint32_t", "uint32_t", "double">>,
    <<"kU32", "kU16", "kF64", "uint32_t", "uint16_t", "double">>,
    <<"kU32", "kU8", "kF64", "uint32_t", "uint8_t", "double">>,
    <<"kU16", "kU64", "kF64", "uint16_t", "uint64_t", "double">>,
    <<"kU16", "kU32", "kF64", "uint16_t", "uint32_t", "double">>,
    <<"kU16", "kU16", "kF64", "uint16_t", "uint16_t", "double">>,
    <<"kU16", "kU8", "kF64", "uint16_t", "uint8_t", "double">>,
    <<"kU8", "kU64", "kF64", "uint8_t", "uint64_t", "double">>,
    <<"kU8", "kU32", "kF64", "uint8_t", "uint32_t", "double">>,
    <<"kU8", "kU16", "kF64", "uint8_t", "uint16_t", "double">>,
    <<"kU8", "kU8", "kF64", "uint8_t", "uint8_t", "double">>,
    <<"kU64", "kU64", "kF32", "uint64_t", "uint64_t", "float">>,
    <<"kU64", "kU32", "kF32", "uint64_t", "uint32_t", "float">>,
    <<"kU64", "kU16", "kF32", "uint64_t", "uint16_t", "float">>,
    <<"kU64", "kU8", "kF32", "uint64_t", "uint8_t", "float">>,
    <<"kU32", "kU64", "kF32", "uint32_t", "uint64_t", "float">>,
    <<"kU32", "kU32", "kF32", "uint32_t", "uint32_t", "float">>,
    <<"kU32", "kU16", "kF32", "uint32_t", "uint16_t", "float">>,
    <<"kU32", "kU8", "kF32", "uint32_t", "uint8_t", "float">>,
    <<"kU16", "kU64", "kF32", "uint16_t", "uint64_t", "float">>,
    <<"kU16", "kU32", "kF32", "uint16_t", "uint32_t", "float">>,
    <<"kU16", "kU16", "kF32", "uint16_t", "uint16_t", "float">>,
    <<"kU16", "kU8", "kF32", "uint16_t", "uint8_t", "float">>,
    <<"kU8", "kU64", "kF32", "uint8_t", "uint64_t", "float">>,
    <<"kU8", "kU32", "kF32", "uint8_t", "uint32_t", "float">>,
    <<"kU8", "kU16", "kF32", "uint8_t", "uint16_t", "float">>,
    <<"kU8", "kU8", "kF32", "uint8_t", "uint8_t", "float">>,
    <<"kU64", "kU64", "kF16", "uint64_t", "uint64_t", "f16">>,
    <<"kU64", "kU64", "kBF16", "uint64_t", "uint64_t", "bf16">>,
    <<"kU32", "kU32", "kF16", "uint32_t", "uint32_t", "f16">>,
    <<"kU32", "kU32", "kBF16", "uint32_t", "uint32_t", "bf16">>,
    <<"kU16", "kU16", "kF16", "uint16_t", "uint16_t", "f16">>,
    <<"kU16", "kU16", "kBF16", "uint16_t", "uint16_t", "bf16">>,
    <<"kU8", "kU8", "kF16", "uint8_t", "uint8_t", "f16">>,
    <<"kU8", "kU8", "kBF16", "uint8_t", "uint8_t", "bf16">>,
    <<"kU64", "kU64", "kI64", "uint64_t", "uint64_t", "int64_t">>,
    <<"kU64", "kU64", "kI32", "uint64_t", "uint64_t", "int32_t">>,
    <<"kU64", "kU64", "kI16", "uint64_t", "uint64_t", "int16_t">>,
    <<"kU64", "kU64", "kI8", "uint64_t", "uint64_t", "int8_t">>,
    <<"kU32", "kU32", "kI64", "uint32_t", "uint32_t", "int64_t">>,
    <<"kU32", "kU32", "kI32", "uint32_t", "uint32_t", "int32_t">>,
    <<"kU32", "kU32", "kI16", "uint32_t", "uint32_t", "int16_t">>,
    <<"kU32", "kU32", "kI8", "uint32_t", "uint32_t", "int8_t">>,
    <<"kU16", "kU16", "kI64", "uint16_t", "uint16_t", "int64_t">>,
    <<"kU16", "kU16", "kI32", "uint16_t", "uint16_t", "int32_t">>,
    <<"kU16", "kU16", "kI16", "uint16_t", "uint16_t", "int16_t">>,
    <<"kU16", "kU16", "kI8", "uint16_t", "uint16_t", "int8_t">>,
    <<"kU8", "kU8", "kI64", "uint8_t", "uint8_t", "int64_t">>,
    <<"kU8", "kU8", "kI32", "uint8_t", "uint8_t", "int32_t">>,
    <<"kU8", "kU8", "kI16", "uint8_t", "uint8_t", "int16_t">>,
    <<"kU8", "kU8", "kI8", "uint8_t", "uint8_t", "int8_t">>,
    <<"kU64", "kU64", "kC64", "uint64_t", "uint64_t", "complex64">>
>>

(***************************************************************************)
(* The CASE / CASE_SECSAME lines of _mlir_ciface_newSparseTensorFromReader.*)
(***************************************************************************)
newSparseTensorFromReaderCases ==
<<
    <<"kU64", "kU64", "kF64", "uint64_t", "uint64_t", "double">>,
    <<"kU64", "kU32", "kF64", "uint64_t", "uint32_t", "double">>,
    <<"kU64", "kU16", "kF64", "uint64_t", "uint16_t", "double">>,
    <<"kU64", "kU8", "kF64", "uint64_t", "uint8_t", "double">>,
    <<"kU32", "kU64", "kF64", "uint32_t", "uint64_t", "double">>,
    <<"kU32", "kU32", "kF64", "uint32_t", "uint32_t", "double">>,
    <<"kU32", "kU16", "kF64", "uint32_t", "uint16_t", "double">>,
    <<"kU32", "kU8", "kF64", "uint32_t", "uint8_t", "double">>,
    <<"kU16", "kU64", "kF64", "uint16_t", "uint64_t", "double">>,
    <<"kU16", "kU32", "kF64", "uint16_t", "uint32_t", "double">>,
    <<"kU16", "kU16", "kF64", "uint16_t", "uint16_t", "double">>,
    <<"kU16", "kU8", "kF64", "uint16_t", "uint8_t", "double">>,
    <<"kU8", "kU64", "kF64", "uint8_t", "uint64_t", "double">>,
    <<"kU8", "kU32", "kF64", "uint8_t", "uint32_t", "double">>,
    <<"kU8", "kU16", "kF64", "uint8_t", "uint16_t", "double">>,
    <<"kU8", "kU8", "kF64", "uint8_t", "uint8_t", "double">>,
    <<"kU64", "kU64", "kF32", "uint64_t", "uint64_t", "float">>,
    <<"kU64", "kU32", "kF32", "uint64_t", "uint32_t", "float">>,
    <<"kU64", "kU16", "kF32", "uint64_t", "uint16_t", "float">>,
    <<"kU64", "kU8", "kF32", "uint64_t", "uint8_t", "float">>,
    <<"kU32", "kU64", "kF32", "uint32_t", "uint64_t", "float">>,
    <<"kU32", "kU32", "kF32", "uint32_t", "uint32_t", "float">>,
    <<"kU32", "kU16", "kF32", "uint32_t", "uint16_t", "float">>,
    <<"kU32", "kU8", "kF32", "uint32_t", "uint8_t", "float">>,
    <<"kU16", "kU64", "kF32", "uint16_t", "uint64_t", "float">>,
    <<"kU16", "kU32", "kF32", "uint16_t", "uint32_t", "float">>,
    <<"kU16", "kU16", "kF32", "uint16_t", "uint16_t", "float">>,
    <<"kU16", "kU8", "kF32", "uint16_t", "uint8_t", "float">>,
    <<"kU8", "kU64", "kF32", "uint8_t", "uint64_t", "float">>,
    <<"kU8", "kU32", "kF32", "uint8_t", "uint32_t", "float">>,
    <<"kU8", "kU16", "kF32", "uint8_t", "uint16_t", "float">>,
    <<"kU8", "kU8", "kF32", "uint8_t", "uint8_t", "float">>,
    <<"kU64", "kU64", "kF16", "uint64_t", "uint64_t", "f16">>,
    <<"kU64", "kU64", "kBF16", "uint64_t", "uint64_t", "bf16">>,
    <<"kU32", "kU32", "kF16", "uint32_t", "uint32_t", "f16">>,
    <<"kU32", "kU32", "kBF16", "uint32_t", "uint32_t", "bf16">>,
    <<"kU16", "kU16", "kF16", "uint16_t", "uint16_t", "f16">>,
    <<"kU16", "kU16", "kBF16", "uint16_t", "uint16_t", "bf16">>,
    <<"kU8", "kU8", "kF16", "uint8_t", "uint8_t", "f16">>,
    <<"kU8", "kU8", "kBF16", "uint8_t", "uint8_t", "bf16">>,
    <<"kU64", "kU64", "kI64", "uint64_t", "uint64_t", "int64_t">>,
    <<"kU64", "kU64", "kI32", "uint64_t", "uint64_t", "int32_t">>,
    <<"kU64", "kU64", "kI16", "uint64_t", "uint64_t", "int16_t">>,
    <<"kU64", "kU64", "kI8", "uint64_t", "uint64_t", "int8_t">>,
    <<"kU32", "kU32", "kI64", "uint32_t", "uint32_t", "int64_t">>,
    <<"kU32", "kU32", "kI32", "uint32_t", "uint32_t", "int32_t">>,
    <<"kU32", "kU32", "kI16", "uint32_t", "uint32_t", "int16_t">>,
    <<"kU32", "kU32", "kI8", "uint32_t", "uint32_t", "int8_t">>,
    <<"kU16", "kU16", "kI64", "uint16_t", "uint16_t", "int64_t">>,
    <<"kU16", "kU16", "kI32", "uint16_t", "uint16_t", "int32_t">>,
    <<"kU16", "kU16", "kI16", "uint16_t", "uint16_t", "int16_t">>,
    <<"kU16", "kU16", "kI8", "uint16_t", "uint16_t", "int8_t">>,
    <<"kU8", "kU8", "kI64", "uint8_t", "uint8_t", "int64_t">>,
    <<"kU8", "kU8", "kI32", "uint8_t", "uint8_t", "int32_t">>,
    <<"kU8", "kU8", "kI16", "uint8_t", "uint8_t", "int16_t">>,
    <<"kU8", "kU8", "kI8", "uint8_t", "uint8_t", "int8_t">>,
    <<"kU64", "kU64", "kC64", "uint64_t", "uint64_t", "complex64">>,
    <<"kU64", "kU64", "kC32", "uint64_t", "uint64_t", "complex32">>
>>

(* The condition of the if statement that CASE expands to. *)
CaseMatches(c, posTp, crdTp, valTp) ==
    posTp = c[1] /\ crdTp = c[2] /\ valTp = c[3]

Fatal(msg) ==
    [status |-> "fatal", msg |-> msg, case |-> 0,
     P |-> "none", C |-> "none", V |-> "none", action |-> "none"]

(* A faulty variant: CaseBody without the MLIR_SPARSETENSOR_FATAL after the *)
(* switch.  An action outside the switch leaves the if block; no later     *)
(* CASE has the same three tags, so the statement after the last CASE is   *)
(* reached.                                                                *)
CaseBody_FallsThrough(cases, i, action) ==
    IF action \in Actions
    THEN [status |-> "return", msg |-> "none", case |-> i,
          P |-> cases[i][4], C |-> cases[i][5], V |-> cases[i][6],
          action |-> action]
    ELSE Fatal("unsupported combination of types")

(***************************************************************************)
(* The body of a matching CASE of _mlir_ciface_newSparseTensor: the switch *)
(* returns from the function for each of the seven actions; any other      *)
(* action value leaves the switch and reaches MLIR_SPARSETENSOR_FATAL.     *)
(***************************************************************************)
CaseBody(cases, i, action) ==
    IF action \in Actions
    THEN [status |-> "return", msg |-> "none", case |-> i,
          P |-> cases[i][4], C |-> cases[i][5], V |-> cases[i][6],
          action |-> action]
    ELSE Fatal("unknown action")

(* The body of a matching CASE of _mlir_ciface_newSparseTensorFromReader. *)
ReaderCaseBody(cases, i) ==
    [status |-> "return", msg |-> "none", case |-> i,
     P |-> cases[i][4], C |-> cases[i][5], V |-> cases[i][6],
     action |-> "readSparseTensor"]

(* The statement after the last CASE. *)
UnsupportedCombination == Fatal("unsupported combination of types")

(***************************************************************************)
(* The chain of CASEs from the i-th on: the ifs are tried in source order, *)
(* the first whose condition holds ends the call.                          *)
(***************************************************************************)
RECURSIVE CaseChain(_, _, _, _, _, _)
CaseChain(cases, i, posTp, crdTp, valTp, action) ==
    IF i > Len(cases)
    THEN UnsupportedCombination
    ELSE IF CaseMatches(cases[i], posTp, crdTp, valTp)
         THEN CaseBody(cases, i, action)
         ELSE CaseChain(cases, i + 1, posTp, crdTp, valTp, action)

RECURSIVE ReaderCaseChain(_, _, _, _, _)
ReaderCaseChain(cases, i, posTp, crdTp, valTp) ==
    IF i > Len(cases)
    THEN UnsupportedCombination
    ELSE IF CaseMatches(cases[i], posTp, crdTp, valTp)
         THEN ReaderCaseBody(cases, i)
         ELSE ReaderCaseChain(cases, i + 1, posTp, crdTp, valTp)

(* A faulty variant: newSparseTensorDispatch without the rewrite of crdTp. *)
newSparseTensorDispatch_NoCrdRewrite(posTp, crdTp, valTp, action) ==
    LET p == IF posTp = "kIndex" THEN "kU64" ELSE posTp
    IN  CaseChain(newSparseTensorCases, 1, p, crdTp, valTp, action)

(***************************************************************************)
(* The type resolution of _mlir_ciface_newSparseTensor: kIndex is          *)
(* rewritten to kU64 in both overhead tags, then the CASEs are tried.      *)
(***************************************************************************)
newSparseTensorDispatch(posTp, crdTp, valTp, action) ==
    LET p == IF posTp = "kIndex" THEN "kU64" ELSE posTp
        c == IF crdTp = "kIndex" THEN "kU64" ELSE crdTp
    IN  CaseChain(newSparseTensorCases, 1, p, c, valTp, action)

(* The type resolution of _mlir_ciface_newSparseTensorFromReader. *)
newSparseTensorFromReaderDispatch(posTp, crdTp, valTp) ==
    LET p == IF posTp = "kIndex" THEN "kU64" ELSE posTp
        c == IF crdTp = "kIndex" THEN "kU64" ELSE crdTp
    IN  ReaderCaseChain(newSparseTensorFromReaderCases, 1, p, c, valTp)

Pending ==
    [status |-> "pending", msg |-> "none", case |-> 0,
     P |-> "none", C |-> "none", V |-> "none", action |-> "none"]

(***************************************************************************)
(* Bounds of the model.                                                    *)
(***************************************************************************)
MaxAddr == 3        \* addresses operator new can hand out: 1..MaxAddr

MaxElems == 2       \* elements a storage instance or coordinate list holds

MaxExtraNext == 2   \* getNext calls made on an exhausted iterator

MaxLines == 2       \* comment lines written to the standard output stream

MaxWrites == 3      \* lines a stream takes beyond MaxLines

(* The address of std::cout, the one stream object that is never allocated. *)
CoutAddr == 0

(* nullptr, and "no address" in the record of a call. *)
NullPtr == -1

Addr == 0..MaxAddr

(***************************************************************************)
(* StridedMemRefType<T, 1>: the descriptor that carries an array across    *)
(* the C interface.  basePtr and dataPtr name the array the two pointers   *)
(* of the descriptor point to; data is the elements found there, the       *)
(* indexed part starts offset elements in.  An array is named by the       *)
(* object that owns it, the member it is and, for the overhead arrays, the *)
(* level; a buffer of the caller is owned by no object.                    *)
(***************************************************************************)
ArrayOf(obj, member, lvl) == [obj |-> obj, member |-> member, lvl |-> lvl]

CallerArray == ArrayOf(NullPtr, "caller", 0)

MemRef(data, offset) ==
    [basePtr |-> CallerArray, dataPtr |-> CallerArray,
     data |-> data, offset |-> offset, size |-> Len(data) - offset, stride |-> 1]

NoRef ==
    [basePtr |-> ArrayOf(NullPtr, "null", 0), dataPtr |-> ArrayOf(NullPtr, "null", 0),
     data |-> <<>>, offset |-> 0, size |-> 0, stride |-> 0]

ASSERT_NO_STRIDE(ref) == ref.stride = 1

MEMREF_GET_USIZE(ref) == ref.size

MEMREF_GET_PAYLOAD(ref) == SubSeq(ref.data, ref.offset + 1, Len(ref.data))

(* A rank-0 memref: one element at data + offset. *)
MEMREF_GET_SCALAR(ref) == ref.data[ref.offset + 1]

(***************************************************************************)
(* Objects.  One record shape serves every kind of object:                 *)
(*   tensor  SparseTensorStorage<P, C, V>   tp, ctor, rank, lvl2dim,       *)
(*                                          elems, open                    *)
(*   coo     SparseTensorCOO<V>             tp[3], rank, elems             *)
(*   iter    SparseTensorIterator<V>        tp[3], coo, it, end            *)
(*   reader  SparseTensorReader             rank, nse, symmetric, elems,   *)
(*                                          it                             *)
(*   writer  std::ostream                   out, good                      *)
(* elems is a sequence of <<coordinates, value>> pairs; coordinates are    *)
(* 0-based numbers held in a tuple; a storage instance holds level         *)
(* coordinates, and lvl2dim[l] is the dimension its level l stores.  ctor  *)
(* tells a storage instance made by newEmpty ("newEmpty") from one made    *)
(* with its elements ("other").  out is the sequence of lines a stream has *)
(* taken, every line with the statement that wrote it (kind) and the       *)
(* numbers it holds (nums); good is the stream's good().  A reader holds   *)
(* the header of its file (rank, nse, symmetric), the element lines of the *)
(* file (elems) and the number of lines it has read (it).                  *)
(***************************************************************************)
NoObj ==
    [kind |-> "none", live |-> FALSE, tp |-> <<"none", "none", "none">>,
     ctor |-> "none", rank |-> 0, lvl2dim |-> <<>>, elems |-> <<>>,
     open |-> FALSE, coo |-> NullPtr, it |-> 0, end |-> 0, out |-> <<>>,
     good |-> FALSE, nse |-> 0, symmetric |-> FALSE]

Cout == [NoObj EXCEPT !.kind = "writer", !.live = TRUE, !.good = TRUE]

Live(h, a) == a \in Addr /\ h[a].live

LiveKind(h, a, k) == Live(h, a) /\ h[a].kind = k

(***************************************************************************)
(* operator new: an address that holds no live object.  Addresses of       *)
(* deleted objects are handed out again.                                   *)
(***************************************************************************)
FreeAddrs(h) == {a \in 1..MaxAddr : ~h[a].live}

NewAddr(h) == CHOOSE a \in FreeAddrs(h) : \A b \in FreeAddrs(h) : a <= b

(* Strict lexicographic order of two coordinate tuples of equal length. *)
LexLess(a, b) ==
    \E i \in 1..Len(a) :
        /\ a[i] < b[i]
        /\ \A j \in 1..(i - 1) : a[j] = b[j]

(* A sequence of elements sorted by coordinates (a stable insertion sort). *)
RECURSIVE InsertSorted(_, _)
InsertSorted(sorted, e) ==
    IF sorted = <<>> THEN <<e>>
    ELSE IF LexLess(e[1], Head(sorted)[1])
         THEN <<e>> \o sorted
         ELSE <<Head(sorted)>> \o InsertSorted(Tail(sorted), e)

RECURSIVE SortLex(_)
SortLex(es) ==
    IF es = <<>> THEN <<>>
    ELSE InsertSorted(SortLex(SubSeq(es, 1, Len(es) - 1)), es[Len(es)])

(***************************************************************************)
(* A coordinate tuple taken from a source space of srcRank coordinates     *)
(* into a target space of trgRank coordinates: target position             *)
(* src2trg[s] receives source coordinate s.                                *)
(***************************************************************************)
MapCoords(c, trgRank, srcRank, src2trg) ==
    [t \in 1..trgRank |->
        IF \E s \in 1..srcRank : src2trg[s] = t - 1
        THEN c[CHOOSE s \in 1..srcRank : src2trg[s] = t - 1]
        ELSE 0]

MapElems(es, trgRank, srcRank, src2trg) ==
    [i \in 1..Len(es) |-> <<MapCoords(es[i][1], trgRank, srcRank, src2trg), es[i][2]>>]

(***************************************************************************)
(* SparseTensorStorage<P, C, V>, SparseTensorCOO<V> and SparseTensorReader *)
(* as this file uses them.  Their bodies live in the headers this file     *)
(* includes; what follows is their contract.                               *)
(***************************************************************************)

(* SparseTensorStorage::newEmpty: no elements, open for insertion. *)
StorageNewEmpty(P, C, V, lvlRank, lvl2dim) ==
    [NoObj EXCEPT !.kind = "tensor", !.live = TRUE, !.tp = <<P, C, V>>,
                  !.ctor = "newEmpty", !.rank = lvlRank, !.lvl2dim = lvl2dim,
                  !.open = TRUE]

(* SparseTensorStorage::newFromCOO: the elements of the list, in level order. *)
StorageNewFromCOO(P, C, V, lvlRank, lvl2dim, coo) ==
    [NoObj EXCEPT !.kind = "tensor", !.live = TRUE, !.tp = <<P, C, V>>,
                  !.ctor = "other", !.rank = lvlRank, !.lvl2dim = lvl2dim,
                  !.open = TRUE, !.elems = SortLex(coo.elems)]

(***************************************************************************)
(* The enumeration of a storage instance into a target space: the          *)
(* coordinate of level l is the coordinate of dimension lvl2dim[l], and    *)
(* goes to target position src2trg[lvl2dim[l]].                            *)
(***************************************************************************)
StorageEnumerate(tensor, trgRank, src2trg) ==
    MapElems(tensor.elems, trgRank, tensor.rank,
             [l \in 1..tensor.rank |-> src2trg[tensor.lvl2dim[l] + 1]])

(* SparseTensorStorage::newFromSparseTensor: the source's elements         *)
(* enumerated through src2lvl, in level order.                             *)
StorageNewFromSparseTensor(P, C, V, lvlRank, lvl2dim, srcRank, src2lvl, tensor) ==
    [NoObj EXCEPT !.kind = "tensor", !.live = TRUE, !.tp = <<P, C, V>>,
                  !.ctor = "other", !.rank = lvlRank, !.lvl2dim = lvl2dim,
                  !.open = TRUE,
                  !.elems = SortLex(StorageEnumerate(tensor, lvlRank, src2lvl))]

(* SparseTensorStorage::packFromLvlBuffers: the elements the buffers hold. *)
StoragePackFromLvlBuffers(P, C, V, lvlRank, lvl2dim, buffers) ==
    [NoObj EXCEPT !.kind = "tensor", !.live = TRUE, !.tp = <<P, C, V>>,
                  !.ctor = "other", !.rank = lvlRank, !.lvl2dim = lvl2dim,
                  !.open = TRUE, !.elems = buffers]

(* new SparseTensorCOO<V>(rank, sizes). *)
NewCOO(V, rank, elems) ==
    [NoObj EXCEPT !.kind = "coo", !.live = TRUE, !.tp = <<"none", "none", V>>,
                  !.rank = rank, !.elems = elems]

(* SparseTensorStorage::toCOO: a new list of the stored elements, in       *)
(* storage order, enumerated through src2trg.                              *)
StorageToCOO(tensor, trgRank, srcRank, src2trg) ==
    NewCOO(tensor.tp[3], trgRank, StorageEnumerate(tensor, trgRank, src2trg))

(***************************************************************************)
(* SparseTensorStorage::lexInsert.  The storage builds its structure on    *)
(* the assumption that the coordinates grow strictly; when they do not,    *)
(* the stored structure is undefined: the call may store the element or    *)
(* leave it out.  The same holds of an insertion after endInsert, which    *)
(* has closed the structure.  The result is the set of possible instances. *)
(***************************************************************************)
StorageLexInsert(tensor, lvlCoords, value) ==
    LET appended == [tensor EXCEPT !.elems = Append(@, <<lvlCoords, value>>)]
    IN  IF /\ tensor.open
           /\ \/ tensor.elems = <<>>
              \/ LexLess(tensor.elems[Len(tensor.elems)][1], lvlCoords)
        THEN {appended}
        ELSE {appended, tensor}

(* SparseTensorStorage::endInsert: the instance leaves the insertion state. *)
StorageEndInsert(tensor) == [tensor EXCEPT !.open = FALSE]

(* SparseTensorStorage::getValues: the value array. *)
StorageGetValues(tensor) == [i \in 1..Len(tensor.elems) |-> tensor.elems[i][2]]

(***************************************************************************)
(* The overhead arrays of compressed levels.  The entries of level lvl are *)
(* the distinct coordinate prefixes of length lvl + 1, in storage order;   *)
(* the coordinate array of the level holds the last coordinate of each,    *)
(* and the position array holds, for every entry of the level above, where *)
(* its children end (and a leading 0).                                     *)
(***************************************************************************)
RECURSIVE LevelEntries(_, _)
LevelEntries(elems, n) ==
    IF elems = <<>> THEN <<>>
    ELSE LET rest == LevelEntries(SubSeq(elems, 1, Len(elems) - 1), n)
             p == SubSeq(elems[Len(elems)][1], 1, n)
         IN  IF \E i \in 1..Len(rest) : rest[i] = p THEN rest ELSE Append(rest, p)

(* SparseTensorStorage::getCoordinates. *)
StorageGetCoordinates(tensor, lvl) ==
    LET entries == LevelEntries(tensor.elems, lvl + 1)
    IN  [i \in 1..Len(entries) |-> entries[i][lvl + 1]]

(* SparseTensorStorage::getPositions. *)
StorageGetPositions(tensor, lvl) ==
    LET parents == LevelEntries(tensor.elems, lvl)
        entries == LevelEntries(tensor.elems, lvl + 1)
        ParentOf(j) == CHOOSE i \in 1..Len(parents) :
                           parents[i] = SubSeq(entries[j], 1, lvl)
    IN  [i \in 1..(Len(parents) + 1) |->
            Cardinality({j \in 1..Len(entries) : ParentOf(j) < i})]

(***************************************************************************)
(* SparseTensorIterator<V>.                                                *)
(***************************************************************************)

(* The constructor: it = coo->begin(), end = coo->end(); the iterator      *)
(* keeps the pointer it is given.                                          *)
SparseTensorIterator(cooAddr, coo) ==
    [NoObj EXCEPT !.kind = "iter", !.live = TRUE, !.tp = coo.tp,
                  !.rank = coo.rank,
                  !.coo = cooAddr, !.it = 0, !.end = Len(coo.elems)]

(* A faulty variant: IteratorGetNext that goes back to the first element   *)
(* once the end is reached.                                                *)
IteratorGetNext_Restarts(iter) ==
    IF iter.it < iter.end
    THEN [elem |-> iter.it + 1, iter |-> [iter EXCEPT !.it = @ + 1]]
    ELSE [elem |-> 0, iter |-> [iter EXCEPT !.it = 0]]

(* getNext: it < end ? &*it++ : nullptr.  elem is the 1-based index of the *)
(* element returned, 0 for nullptr.                                        *)
IteratorGetNext(iter) ==
    IF iter.it < iter.end
    THEN [elem |-> iter.it + 1, iter |-> [iter EXCEPT !.it = @ + 1]]
    ELSE [elem |-> 0, iter |-> iter]

(***************************************************************************)
(* The heap during a call, with the addresses the call has applied delete  *)
(* to so far, in order.                                                    *)
(***************************************************************************)
AtEntry(h) == [heap |-> h, deleted |-> <<>>]

(* The effect of a delete expression. *)
DeleteObj(hr, a) ==
    [heap |-> [hr.heap EXCEPT ![a] = NoObj], deleted |-> Append(hr.deleted, a)]

(* The effect of a new expression that builds obj at address a. *)
NewObj(hr, a, obj) ==
    [heap |-> [hr.heap EXCEPT ![a] = obj], deleted |-> hr.deleted]

(* A faulty variant: IteratorDelete whose destructor does not delete coo. *)
IteratorDelete_LeaksCOO(hr, a) == DeleteObj(hr, a)

(* The destructor: delete coo.  Then the iterator's own storage goes. *)
IteratorDelete(hr, a) == DeleteObj(DeleteObj(hr, hr.heap[a].coo), a)

(***************************************************************************)
(* The record of a call: the entry point, the arguments that identify the  *)
(* call, and what it returned.                                             *)
(***************************************************************************)
NoCall ==
    [op |-> "none", status |-> "none", msg |-> "none", action |-> "none",
     ptr |-> NullPtr, ret |-> NullPtr, flag |-> FALSE, fname |-> "none",
     out |-> NoRef, val |-> 0, dim2lvl |-> <<>>, deleted |-> <<>>,
     args |-> <<>>, out2 |-> NoRef]

Returned(op) == [NoCall EXCEPT !.op = op, !.status = "return"]

(***************************************************************************)
(* The shape arguments of _mlir_ciface_newSparseTensor: the five memrefs.  *)
(***************************************************************************)
ShapeArgs(dimSizes, lvlSizes, lvlTypes, dim2lvl, lvl2dim) ==
    [dimSizesRef |-> MemRef(dimSizes, 0), lvlSizesRef |-> MemRef(lvlSizes, 0),
     lvlTypesRef |-> MemRef(lvlTypes, 0), dim2lvlRef |-> MemRef(dim2lvl, 0),
     lvl2dimRef |-> MemRef(lvl2dim, 0)]

(* The assertions at the head of _mlir_ciface_newSparseTensor. *)
NewSparseTensorAsserts(m) ==
    /\ ASSERT_NO_STRIDE(m.dimSizesRef)
    /\ ASSERT_NO_STRIDE(m.lvlSizesRef)
    /\ ASSERT_NO_STRIDE(m.lvlTypesRef)
    /\ ASSERT_NO_STRIDE(m.dim2lvlRef)
    /\ ASSERT_NO_STRIDE(m.lvl2dimRef)
    /\ MEMREF_GET_USIZE(m.lvlTypesRef) = MEMREF_GET_USIZE(m.lvlSizesRef)
    /\ MEMREF_GET_USIZE(m.dim2lvlRef) = MEMREF_GET_USIZE(m.dimSizesRef)
    /\ MEMREF_GET_USIZE(m.lvl2dimRef) = MEMREF_GET_USIZE(m.lvlSizesRef)

(***************************************************************************)
(* What the static_cast of ptr in each case of the switch requires of the  *)
(* object behind ptr, and the assert(ptr) before it.  With kPack ptr is    *)
(* the address of the caller's buffers, which the model passes as buffers. *)
(***************************************************************************)
CasePtrOk(h, d, ptr) ==
    CASE d.action \in {"kEmpty", "kEmptyCOO", "kPack"} -> TRUE
      [] d.action = "kFromCOO" -> LiveKind(h, ptr, "coo") /\ h[ptr].tp[3] = d.V
      [] d.action = "kSparseToSparse" -> LiveKind(h, ptr, "tensor")
      [] d.action \in {"kToCOO", "kToIterator"} ->
            LiveKind(h, ptr, "tensor") /\ h[ptr].tp = <<d.P, d.C, d.V>>

(* The number of objects each case allocates. *)
CaseAllocs(d) == IF d.action = "kToIterator" THEN 2 ELSE 1

(***************************************************************************)
(* The cases of the switch in CASE.  Each gives the heap after the case    *)
(* and the pointer it returns.                                             *)
(***************************************************************************)
CaseEmpty(hr, d, m) ==
    LET a == NewAddr(hr.heap)
        lvlRank == MEMREF_GET_USIZE(m.lvlSizesRef)
        lvl2dim == MEMREF_GET_PAYLOAD(m.lvl2dimRef)
    IN  [hr |-> NewObj(hr, a, StorageNewEmpty(d.P, d.C, d.V, lvlRank, lvl2dim)),
         ret |-> a]

(* A faulty variant: CaseFromCOO that deletes the list once the storage is *)
(* built.                                                                  *)
CaseFromCOO_ConsumesList(hr, d, ptr, m) ==
    LET coo == hr.heap[ptr]
        a == NewAddr(hr.heap)
        lvlRank == MEMREF_GET_USIZE(m.lvlSizesRef)
        lvl2dim == MEMREF_GET_PAYLOAD(m.lvl2dimRef)
    IN  [hr |-> DeleteObj(NewObj(hr, a, StorageNewFromCOO(d.P, d.C, d.V,
                                            lvlRank, lvl2dim, coo)), ptr),
         ret |-> a]

CaseFromCOO(hr, d, ptr, m) ==
    LET coo == hr.heap[ptr]
        a == NewAddr(hr.heap)
        lvlRank == MEMREF_GET_USIZE(m.lvlSizesRef)
        lvl2dim == MEMREF_GET_PAYLOAD(m.lvl2dimRef)
    IN  [hr |-> NewObj(hr, a, StorageNewFromCOO(d.P, d.C, d.V, lvlRank, lvl2dim, coo)),
         ret |-> a]

CaseSparseToSparse(hr, d, ptr, m) ==
    LET tensor == hr.heap[ptr]
        a == NewAddr(hr.heap)
        dimRank == MEMREF_GET_USIZE(m.dimSizesRef)
        lvlRank == MEMREF_GET_USIZE(m.lvlSizesRef)
        dim2lvl == MEMREF_GET_PAYLOAD(m.dim2lvlRef)
        lvl2dim == MEMREF_GET_PAYLOAD(m.lvl2dimRef)
    IN  [hr |-> NewObj(hr, a, StorageNewFromSparseTensor(d.P, d.C, d.V,
                                  lvlRank, lvl2dim, dimRank, dim2lvl, tensor)),
         ret |-> a]

CaseEmptyCOO(hr, d, m) ==
    LET a == NewAddr(hr.heap)
        lvlRank == MEMREF_GET_USIZE(m.lvlSizesRef)
    IN  [hr |-> NewObj(hr, a, NewCOO(d.V, lvlRank, <<>>)), ret |-> a]

(* A faulty variant: CaseToCOO that returns the source itself. *)
CaseToCOO_ReturnsSource(hr, d, ptr, m) == [hr |-> hr, ret |-> ptr]

(* A faulty variant: CaseToCOO that enumerates in the order of the         *)
(* dimensions, whatever dim2lvl the call gives.                            *)
CaseToCOO_IgnoresDim2Lvl(hr, d, ptr, m) ==
    LET tensor == hr.heap[ptr]
        a == NewAddr(hr.heap)
        dimRank == MEMREF_GET_USIZE(m.dimSizesRef)
        lvlRank == MEMREF_GET_USIZE(m.lvlSizesRef)
    IN  [hr |-> NewObj(hr, a, StorageToCOO(tensor, lvlRank, dimRank,
                                           [i \in 1..dimRank |-> i - 1])),
         ret |-> a]

CaseToCOO(hr, d, ptr, m) ==
    LET tensor == hr.heap[ptr]
        a == NewAddr(hr.heap)
        dimRank == MEMREF_GET_USIZE(m.dimSizesRef)
        lvlRank == MEMREF_GET_USIZE(m.lvlSizesRef)
        dim2lvl == MEMREF_GET_PAYLOAD(m.dim2lvlRef)
    IN  [hr |-> NewObj(hr, a, StorageToCOO(tensor, lvlRank, dimRank, dim2lvl)),
         ret |-> a]

CaseToIterator(hr, d, ptr, m) ==
    LET tensor == hr.heap[ptr]
        dimRank == MEMREF_GET_USIZE(m.dimSizesRef)
        lvlRank == MEMREF_GET_USIZE(m.lvlSizesRef)
        dim2lvl == MEMREF_GET_PAYLOAD(m.dim2lvlRef)
        c == NewAddr(hr.heap)
        coo == StorageToCOO(tensor, lvlRank, dimRank, dim2lvl)
        hr1 == NewObj(hr, c, coo)
        a == NewAddr(hr1.heap)
    IN  [hr |-> NewObj(hr1, a, SparseTensorIterator(c, coo)), ret |-> a]

CasePack(hr, d, buffers, m) ==
    LET a == NewAddr(hr.heap)
        lvlRank == MEMREF_GET_USIZE(m.lvlSizesRef)
        lvl2dim == MEMREF_GET_PAYLOAD(m.lvl2dimRef)
    IN  [hr |-> NewObj(hr, a, StoragePackFromLvlBuffers(d.P, d.C, d.V,
                                  lvlRank, lvl2dim, buffers)),
         ret |-> a]

CaseSwitch(hr, d, ptr, buffers, m) ==
    CASE d.action = "kEmpty" -> CaseEmpty(hr, d, m)
      [] d.action = "kFromCOO" -> CaseFromCOO(hr, d, ptr, m)
      [] d.action = "kSparseToSparse" -> CaseSparseToSparse(hr, d, ptr, m)
      [] d.action = "kEmptyCOO" -> CaseEmptyCOO(hr, d, m)
      [] d.action = "kToCOO" -> CaseToCOO(hr, d, ptr, m)
      [] d.action = "kToIterator" -> CaseToIterator(hr, d, ptr, m)
      [] d.action = "kPack" -> CasePack(hr, d, buffers, m)

(* The heap of a process that has made no object: only std::cout exists. *)
EmptyHeap == [a \in Addr |-> IF a = CoutAddr THEN Cout ELSE NoObj]

NoHistory == [a \in Addr |-> <<>>]

(***************************************************************************)
(* The process ends inside a call, of which rec is the record.  Its        *)
(* objects and the handles to them are gone with it.                       *)
(***************************************************************************)
ProcessEnds(rec) ==
    /\ running' = FALSE
    /\ last' = rec
    /\ heap' = EmptyHeap
    /\ handles' = {}
    /\ inserted' = NoHistory
    /\ nextLog' = NoHistory

(* MLIR_SPARSETENSOR_FATAL: the diagnostic is printed and the process exits. *)
FatalExit(op, msg) ==
    ProcessEnds([NoCall EXCEPT !.op = op, !.status = "fatal", !.msg = msg])

(***************************************************************************)
(* _mlir_ciface_newSparseTensor.                                           *)
(***************************************************************************)
NewSparseTensor(m, posTp, crdTp, valTp, action, ptr, buffers) ==
    /\ running
    /\ NewSparseTensorAsserts(m)
    /\ LET d == newSparseTensorDispatch(posTp, crdTp, valTp, action)
       IN  IF d.status = "fatal"
           THEN FatalExit("newSparseTensor", d.msg)
           ELSE /\ CasePtrOk(heap, d, ptr)
                /\ Cardinality(FreeAddrs(heap)) >= CaseAllocs(d)
                /\ LET r == CaseSwitch(AtEntry(heap), d, ptr, buffers, m)
                   IN  /\ heap' = r.hr.heap
                       /\ handles' = handles \cup {r.ret}
                       /\ inserted' = [inserted EXCEPT ![r.ret] =
                              IF d.action = "kFromCOO"
                              THEN [k \in 1..Len(heap[ptr].elems) |->
                                       <<heap[ptr].elems[k][1],
                                         heap[ptr].elems[k][2], TRUE>>]
                              ELSE <<>>]
                       /\ nextLog' = [nextLog EXCEPT ![r.ret] = <<>>]
                       /\ last' = [Returned("newSparseTensor") EXCEPT
                              !.action = d.action, !.ptr = ptr, !.ret = r.ret,
                              !.dim2lvl = MEMREF_GET_PAYLOAD(m.dim2lvlRef),
                              !.deleted = r.hr.deleted]
                       /\ UNCHANGED running

(* A faulty variant: aliasIntoMemref that hands out a copy of the array. *)
aliasIntoMemref_Copies(size, data) ==
    [basePtr |-> ArrayOf(NullPtr, "copy", 0), dataPtr |-> ArrayOf(NullPtr, "copy", 0),
     data |-> data.mem, offset |-> 0, size |-> size, stride |-> 1]

(***************************************************************************)
(* aliasIntoMemref: the memref is made to alias the array; nothing is      *)
(* copied.  data is a pointer: the array it points to (ptr) and the        *)
(* elements found there (mem).                                             *)
(***************************************************************************)
aliasIntoMemref(size, data) ==
    [basePtr |-> data.ptr, dataPtr |-> data.ptr,
     data |-> data.mem, offset |-> 0, size |-> size, stride |-> 1]

(* _mlir_ciface_sparseValues##VNAME. *)
SparseValues(tensor) ==
    /\ running
    /\ tensor \in handles
    /\ LiveKind(heap, tensor, "tensor")
    /\ LET v == StorageGetValues(heap[tensor])
       IN  last' = [Returned("sparseValues") EXCEPT
                        !.ptr = tensor,
                        !.out = aliasIntoMemref(Len(v),
                                    [ptr |-> ArrayOf(tensor, "values", 0), mem |-> v])]
    /\ UNCHANGED <<heap, handles, running, inserted, nextLog>>

(* _mlir_ciface_sparsePositions##PNAME. *)
SparsePositions(tensor, lvl) ==
    /\ running
    /\ tensor \in handles
    /\ LiveKind(heap, tensor, "tensor")
    /\ lvl < heap[tensor].rank
    /\ LET v == StorageGetPositions(heap[tensor], lvl)
       IN  last' = [Returned("sparsePositions") EXCEPT
                        !.ptr = tensor, !.args = <<lvl>>,
                        !.out = aliasIntoMemref(Len(v),
                                    [ptr |-> ArrayOf(tensor, "positions", lvl),
                                     mem |-> v])]
    /\ UNCHANGED <<heap, handles, running, inserted, nextLog>>

(* _mlir_ciface_sparseCoordinates##CNAME. *)
SparseCoordinates(tensor, lvl) ==
    /\ running
    /\ tensor \in handles
    /\ LiveKind(heap, tensor, "tensor")
    /\ lvl < heap[tensor].rank
    /\ LET v == StorageGetCoordinates(heap[tensor], lvl)
       IN  last' = [Returned("sparseCoordinates") EXCEPT
                        !.ptr = tensor, !.args = <<lvl>>,
                        !.out = aliasIntoMemref(Len(v),
                                    [ptr |-> ArrayOf(tensor, "coordinates", lvl),
                                     mem |-> v])]
    /\ UNCHANGED <<heap, handles, running, inserted, nextLog>>

(* A faulty variant: AddEltLoop that stores dimCoords[d] at lvlCoords[d]. *)
RECURSIVE AddEltLoop_IgnoresDim2Lvl(_, _, _, _, _)
AddEltLoop_IgnoresDim2Lvl(lvlCoords, d, rank, dimCoords, dim2lvl) ==
    IF d >= rank THEN lvlCoords
    ELSE AddEltLoop_IgnoresDim2Lvl([lvlCoords EXCEPT ![d + 1] = dimCoords[d + 1]],
                                   d + 1, rank, dimCoords, dim2lvl)

(***************************************************************************)
(* _mlir_ciface_addElt##VNAME.  The loop stores dimCoords[d] at            *)
(* lvlCoords[dim2lvl[d]]; lvlCoords starts as rank zeros.                  *)
(***************************************************************************)
RECURSIVE AddEltLoop(_, _, _, _, _)
AddEltLoop(lvlCoords, d, rank, dimCoords, dim2lvl) ==
    IF d >= rank THEN lvlCoords
    ELSE AddEltLoop([lvlCoords EXCEPT ![dim2lvl[d + 1] + 1] = dimCoords[d + 1]],
                    d + 1, rank, dimCoords, dim2lvl)

AddElt(lvlCOO, vref, dimCoordsRef, dim2lvlRef) ==
    /\ running
    /\ lvlCOO \in handles
    /\ LiveKind(heap, lvlCOO, "coo")
    /\ ASSERT_NO_STRIDE(dimCoordsRef)
    /\ ASSERT_NO_STRIDE(dim2lvlRef)
    /\ MEMREF_GET_USIZE(dim2lvlRef) = MEMREF_GET_USIZE(dimCoordsRef)
    /\ Len(heap[lvlCOO].elems) < MaxElems
    /\ LET rank == MEMREF_GET_USIZE(dimCoordsRef)
           lvlCoords == AddEltLoop([i \in 1..rank |-> 0], 0, rank,
                                   MEMREF_GET_PAYLOAD(dimCoordsRef),
                                   MEMREF_GET_PAYLOAD(dim2lvlRef))
           value == MEMREF_GET_SCALAR(vref)
       IN  /\ heap' = [heap EXCEPT ![lvlCOO].elems = Append(@, <<lvlCoords, value>>)]
           /\ last' = [Returned("addElt") EXCEPT
                           !.ptr = lvlCOO, !.ret = lvlCOO,
                           !.args = <<vref, dimCoordsRef, dim2lvlRef>>]
    /\ UNCHANGED <<handles, running, inserted, nextLog>>

(* A faulty variant: GetNextCopy that stops one coordinate short. *)
GetNextCopy_OneShort(cref, rank, coords) ==
    [cref EXCEPT !.data =
        [i \in 1..Len(cref.data) |->
            IF i > cref.offset /\ i <= cref.offset + rank - 1
            THEN coords[i - cref.offset]
            ELSE cref.data[i]]]

(* The copy loop of getNext: coords[d] = elem->coords[d] for d < rank,     *)
(* coords being the payload of cref.                                       *)
GetNextCopy(cref, rank, coords) ==
    [cref EXCEPT !.data =
        [i \in 1..Len(cref.data) |->
            IF i > cref.offset /\ i <= cref.offset + rank
            THEN coords[i - cref.offset]
            ELSE cref.data[i]]]

(***************************************************************************)
(* _mlir_ciface_getNext##VNAME.  On an element the first rank coordinates  *)
(* and the value are copied out; on nullptr nothing is written.            *)
(***************************************************************************)
GetNext(iter, cref, vref) ==
    /\ running
    /\ iter \in handles
    /\ LiveKind(heap, iter, "iter")
    /\ ASSERT_NO_STRIDE(cref)
    /\ Len(nextLog[iter]) < heap[iter].end + MaxExtraNext
    /\ LET rank == MEMREF_GET_USIZE(cref)
           g == IteratorGetNext(heap[iter])
           elem == heap[heap[iter].coo].elems[g.elem]
       IN  /\ heap' = [heap EXCEPT ![iter] = g.iter]
           /\ nextLog' = [nextLog EXCEPT ![iter] = Append(@, g.elem # 0)]
           /\ last' = IF g.elem = 0
                      THEN [Returned("getNext") EXCEPT
                               !.ptr = iter, !.flag = FALSE, !.out = cref,
                               !.args = <<cref, vref>>,
                               !.val = MEMREF_GET_SCALAR(vref)]
                      ELSE [Returned("getNext") EXCEPT
                               !.ptr = iter, !.flag = TRUE,
                               !.args = <<cref, vref>>,
                               !.out = GetNextCopy(cref, rank, elem[1]),
                               !.val = elem[2]]
    /\ UNCHANGED <<handles, running, inserted>>

(* A faulty variant: LexInsertCall that reads the coordinates at data, not *)
(* at data + offset.                                                       *)
LexInsertCall_IgnoresOffset(tensor, lvlCoordsRef, vref) ==
    StorageLexInsert(tensor,
                     SubSeq(lvlCoordsRef.data, 1, tensor.rank),
                     MEMREF_GET_SCALAR(vref))

(***************************************************************************)
(* _mlir_ciface_lexInsert##VNAME: the payload of the coordinate memref and *)
(* the value go to the storage's lexInsert, which reads as many            *)
(* coordinates as the storage has levels.                                  *)
(***************************************************************************)
LexInsertCall(tensor, lvlCoordsRef, vref) ==
    StorageLexInsert(tensor,
                     SubSeq(MEMREF_GET_PAYLOAD(lvlCoordsRef), 1, tensor.rank),
                     MEMREF_GET_SCALAR(vref))

LexInsert(t, lvlCoordsRef, vref) ==
    /\ running
    /\ t \in handles
    /\ LiveKind(heap, t, "tensor")
    /\ ASSERT_NO_STRIDE(lvlCoordsRef)
    /\ MEMREF_GET_USIZE(lvlCoordsRef) >= heap[t].rank
    /\ Len(inserted[t]) < MaxElems
    /\ \E tensor \in LexInsertCall(heap[t], lvlCoordsRef, vref) :
           heap' = [heap EXCEPT ![t] = tensor]
    /\ inserted' = [inserted EXCEPT ![t] =
           Append(@, <<SubSeq(MEMREF_GET_PAYLOAD(lvlCoordsRef), 1, heap[t].rank),
                       MEMREF_GET_SCALAR(vref), heap[t].open>>)]
    /\ last' = [Returned("lexInsert") EXCEPT !.ptr = t]
    /\ UNCHANGED <<handles, running, nextLog>>

(* A faulty variant: EndInsertCall that does not reach the storage. *)
EndInsertCall_Forgets(tensor) == tensor

(* endInsert. *)
EndInsertCall(tensor) == StorageEndInsert(tensor)

EndInsert(t) ==
    /\ running
    /\ t \in handles
    /\ LiveKind(heap, t, "tensor")
    /\ heap' = [heap EXCEPT ![t] = EndInsertCall(heap[t])]
    /\ last' = [Returned("endInsert") EXCEPT !.ptr = t]
    /\ UNCHANGED <<handles, running, inserted, nextLog>>

(***************************************************************************)
(* SparseTensorStorage::expInsert.  The touched slots are the first count  *)
(* entries of added; the storage visits them in increasing order and       *)
(* inserts, for each slot c, the coordinates lvlCoords with c at the last  *)
(* level and the value values[c].  Each insertion is a lexInsert, so the   *)
(* result is again a set of possible instances.                            *)
(***************************************************************************)
RECURSIVE SortNat(_)
SortNat(cs) ==
    IF cs = <<>> THEN <<>>
    ELSE LET m == CHOOSE i \in 1..Len(cs) : \A j \in 1..Len(cs) : cs[i] <= cs[j]
         IN  <<cs[m]>> \o SortNat(SubSeq(cs, 1, m - 1) \o SubSeq(cs, m + 1, Len(cs)))

RECURSIVE StorageExpInsertLoop(_, _, _, _)
StorageExpInsertLoop(tensors, lvlCoords, values, slots) ==
    IF slots = <<>> THEN tensors
    ELSE LET c == Head(slots)
             coords == [lvlCoords EXCEPT ![Len(lvlCoords)] = c]
         IN  StorageExpInsertLoop(
                 UNION {StorageLexInsert(tensor, coords, values[c + 1]) : tensor \in tensors},
                 lvlCoords, values, Tail(slots))

StorageExpInsert(tensor, lvlCoords, values, filled, added, count) ==
    StorageExpInsertLoop({tensor}, SubSeq(lvlCoords, 1, tensor.rank), values,
                         SortNat(SubSeq(added, 1, count)))

(* A faulty variant: ExpInsertCall that takes every entry of the added     *)
(* buffer for a touched slot, whatever count says.                         *)
ExpInsertCall_IgnoresCount(tensor, lvlCoordsRef, vref, fref, aref, count) ==
    StorageExpInsert(tensor, MEMREF_GET_PAYLOAD(lvlCoordsRef),
                     MEMREF_GET_PAYLOAD(vref), MEMREF_GET_PAYLOAD(fref),
                     MEMREF_GET_PAYLOAD(aref), MEMREF_GET_USIZE(aref))

(***************************************************************************)
(* _mlir_ciface_expInsert##VNAME: the payloads of the four memrefs and     *)
(* count go to the storage's expInsert.                                    *)
(***************************************************************************)
ExpInsertCall(tensor, lvlCoordsRef, vref, fref, aref, count) ==
    StorageExpInsert(tensor, MEMREF_GET_PAYLOAD(lvlCoordsRef),
                     MEMREF_GET_PAYLOAD(vref), MEMREF_GET_PAYLOAD(fref),
                     MEMREF_GET_PAYLOAD(aref), count)

(***************************************************************************)
(* The caller's part of the expInsert contract, beyond the assertions: the *)
(* coordinate memref covers the levels, added holds count slots, and every *)
(* slot lies within the value buffer.                                      *)
(***************************************************************************)
ExpInsertArgsOk(tensor, lvlCoordsRef, vref, aref, count) ==
    /\ tensor.rank >= 1
    /\ MEMREF_GET_USIZE(lvlCoordsRef) >= tensor.rank
    /\ count <= MEMREF_GET_USIZE(aref)
    /\ \A i \in 1..count :
          MEMREF_GET_PAYLOAD(aref)[i] < MEMREF_GET_USIZE(vref)

ExpInsert(t, lvlCoordsRef, vref, fref, aref, count) ==
    /\ running
    /\ t \in handles
    /\ LiveKind(heap, t, "tensor")
    /\ ASSERT_NO_STRIDE(lvlCoordsRef)
    /\ ASSERT_NO_STRIDE(vref)
    /\ ASSERT_NO_STRIDE(fref)
    /\ ASSERT_NO_STRIDE(aref)
    /\ MEMREF_GET_USIZE(vref) = MEMREF_GET_USIZE(fref)
    /\ ExpInsertArgsOk(heap[t], lvlCoordsRef, vref, aref, count)
    /\ Len(inserted[t]) + count <= MaxElems
    /\ \E tensor \in ExpInsertCall(heap[t], lvlCoordsRef, vref, fref, aref, count) :
           heap' = [heap EXCEPT ![t] = tensor]
    /\ inserted' = [inserted EXCEPT ![t] = @ \o
           [i \in 1..count |->
               LET c == MEMREF_GET_PAYLOAD(aref)[i]
               IN  <<[SubSeq(MEMREF_GET_PAYLOAD(lvlCoordsRef), 1, heap[t].rank)
                         EXCEPT ![heap[t].rank] = c],
                     MEMREF_GET_PAYLOAD(vref)[c + 1], heap[t].open>>]]
    /\ last' = [Returned("expInsert") EXCEPT
                    !.ptr = t, !.args = <<lvlCoordsRef, vref, fref, aref, count>>]
    /\ UNCHANGED <<handles, running, nextLog>>

(***************************************************************************)
(* The release entry points.                                               *)
(***************************************************************************)
Release(op, a, hr) ==
    /\ heap' = hr.heap
    /\ handles' = handles \ {a}
    /\ last' = [Returned(op) EXCEPT !.ptr = a, !.deleted = hr.deleted]
    /\ inserted' = [inserted EXCEPT ![a] = <<>>]
    /\ nextLog' = [nextLog EXCEPT ![a] = <<>>]
    /\ UNCHANGED running

(* delSparseTensor. *)
DelSparseTensor(tensor) ==
    /\ running
    /\ tensor \in handles
    /\ LiveKind(heap, tensor, "tensor")
    /\ Release("delSparseTensor", tensor,
               DeleteObj(AtEntry(heap), tensor))

(* delSparseTensorCOO##VNAME. *)
DelSparseTensorCOO(coo) ==
    /\ running
    /\ coo \in handles
    /\ LiveKind(heap, coo, "coo")
    /\ Release("delSparseTensorCOO", coo,
               DeleteObj(AtEntry(heap), coo))

(* delSparseTensorIterator##VNAME. *)
DelSparseTensorIterator(iter) ==
    /\ running
    /\ iter \in handles
    /\ LiveKind(heap, iter, "iter")
    /\ Release("delSparseTensorIterator", iter,
               IteratorDelete(AtEntry(heap), iter))

(***************************************************************************)
(* _mlir_ciface_createCheckedSparseTensorReader.  SparseTensorReader::create*)
(* opens the file and reads its header; a file it cannot read, or a header *)
(* that does not fit the expected shape, is fatal.                         *)
(***************************************************************************)
(***************************************************************************)
(* The files of the model.  Each holds a 3 by 3 matrix; nse is the         *)
(* non-zero count its header declares, the number of its element lines.    *)
(* "sym.mtx" is declared symmetric and stores the lower triangle: one      *)
(* diagonal line and one off-diagonal line.                                *)
(***************************************************************************)
FileNamed(filename) ==
    IF filename = "sym.mtx"
    THEN [symmetric |-> TRUE, nse |-> 2,
          lines |-> << <<<<0, 0>>, 5>>, <<<<1, 0>>, 6>> >>]
    ELSE [symmetric |-> FALSE, nse |-> 2,
          lines |-> << <<<<0, 1>>, 5>>, <<<<1, 2>>, 7>> >>]

(* SparseTensorReader::create: the reader of an open file, header read. *)
ReaderCreate(filename, dimRank) ==
    [NoObj EXCEPT !.kind = "reader", !.live = TRUE, !.rank = dimRank,
                  !.nse = FileNamed(filename).nse,
                  !.symmetric = FileNamed(filename).symmetric,
                  !.elems = FileNamed(filename).lines]

CreateCheckedSparseTensorReader(filename, dimShapeRef, valTp, fileOk) ==
    /\ running
    /\ ASSERT_NO_STRIDE(dimShapeRef)
    /\ IF ~fileOk
       THEN FatalExit("createCheckedSparseTensorReader", "cannot read file")
       ELSE /\ FreeAddrs(heap) # {}
            /\ LET a == NewAddr(heap)
                   hr == NewObj(AtEntry(heap), a,
                                ReaderCreate(filename, MEMREF_GET_USIZE(dimShapeRef)))
               IN  /\ heap' = hr.heap
                   /\ handles' = handles \cup {a}
                   /\ last' = [Returned("createCheckedSparseTensorReader") EXCEPT
                                   !.ret = a, !.fname = filename]
            /\ UNCHANGED <<running, inserted, nextLog>>

(***************************************************************************)
(* SparseTensorReader::readToBuffers: the entries the remaining lines of   *)
(* the file stand for, in file order, with level coordinates.  In a        *)
(* symmetric file an off-diagonal line stands for two entries, itself and  *)
(* its mirror image.                                                       *)
(***************************************************************************)
RECURSIVE ReaderExpand(_, _)
ReaderExpand(lines, symmetric) ==
    IF lines = <<>> THEN <<>>
    ELSE LET e == Head(lines)
             mirrored == <<<<e[1][2], e[1][1]>>, e[2]>>
         IN  (IF symmetric /\ e[1][1] # e[1][2] THEN <<e, mirrored>> ELSE <<e>>)
                 \o ReaderExpand(Tail(lines), symmetric)

ReaderReadToBuffers(reader, lvlRank, dim2lvl) ==
    MapElems(ReaderExpand(SubSeq(reader.elems, reader.it + 1, Len(reader.elems)),
                          reader.symmetric),
             lvlRank, reader.rank, dim2lvl)

(* SparseTensorReader::getNSE: the non-zero count the header declares. *)
ReaderGetNSE(reader) == reader.nse

(* The coordinates of a sequence of entries, one entry after the other. *)
RECURSIVE FlatCoords(_)
FlatCoords(entries) ==
    IF entries = <<>> THEN <<>>
    ELSE Head(entries)[1] \o FlatCoords(Tail(entries))

(***************************************************************************)
(* Writing seq through the payload pointer of a buffer: the elements that  *)
(* fit land in the buffer, the rest past its end.                          *)
(***************************************************************************)
WriteBuffer(ref, seq) ==
    [ref EXCEPT !.data =
        [i \in 1..Len(ref.data) |->
            IF i > ref.offset /\ i - ref.offset <= Len(seq)
            THEN seq[i - ref.offset]
            ELSE ref.data[i]]]

(* The assertions of _mlir_ciface_getSparseTensorReaderReadToBuffers. *)
ReadToBuffersAsserts(reader, dim2lvlRef, lvl2dimRef, cref, vref) ==
    /\ ASSERT_NO_STRIDE(dim2lvlRef)
    /\ ASSERT_NO_STRIDE(lvl2dimRef)
    /\ ASSERT_NO_STRIDE(cref)
    /\ ASSERT_NO_STRIDE(vref)
    /\ MEMREF_GET_USIZE(dim2lvlRef) = reader.rank
    /\ MEMREF_GET_USIZE(cref) >= MEMREF_GET_USIZE(lvl2dimRef) * MEMREF_GET_USIZE(vref)
    /\ MEMREF_GET_USIZE(vref) >= ReaderGetNSE(reader)

(***************************************************************************)
(* _mlir_ciface_getSparseTensorReaderReadToBuffers##CNAME##VNAME.  The     *)
(* entries go to the two buffers through their payload pointers.  When     *)
(* there are more entries than a buffer holds, the writes run past its     *)
(* end, which is undefined: the call may return as if nothing had          *)
(* happened, or the process may crash.  val is the number of entries       *)
(* written, flag the result (the entries were sorted).                     *)
(***************************************************************************)
ReadToBuffers(p, dim2lvlRef, lvl2dimRef, cref, vref) ==
    /\ running
    /\ p \in handles
    /\ LiveKind(heap, p, "reader")
    /\ heap[p].it = 0
    /\ ReadToBuffersAsserts(heap[p], dim2lvlRef, lvl2dimRef, cref, vref)
    /\ LET lvlRank == MEMREF_GET_USIZE(lvl2dimRef)
           entries == ReaderReadToBuffers(heap[p], lvlRank,
                                          MEMREF_GET_PAYLOAD(dim2lvlRef))
           n == Len(entries)
           overrun == \/ n > MEMREF_GET_USIZE(vref)
                      \/ lvlRank * n > MEMREF_GET_USIZE(cref)
           rec == [NoCall EXCEPT
                     !.op = "readToBuffers", !.ptr = p,
                      !.args = <<dim2lvlRef, lvl2dimRef, cref, vref>>,
                      !.val = n,
                      !.flag = \A k \in 1..(n - 1) :
                                  LexLess(entries[k][1], entries[k + 1][1]),
                      !.out = WriteBuffer(vref, [k \in 1..n |-> entries[k][2]]),
                      !.out2 = WriteBuffer(cref, FlatCoords(entries))]
       IN  \/ /\ heap' = [heap EXCEPT ![p].it = Len(heap[p].elems)]
              /\ last' = [rec EXCEPT !.status = "return"]
              /\ UNCHANGED <<handles, running, inserted, nextLog>>
           \/ /\ overrun
              /\ ProcessEnds([rec EXCEPT !.status = "crash"])

(* delSparseTensorReader. *)
DelSparseTensorReader(p) ==
    /\ running
    /\ p \in handles
    /\ LiveKind(heap, p, "reader")
    /\ Release("delSparseTensorReader", p,
               DeleteObj(AtEntry(heap), p))

(***************************************************************************)
(* operator<< of std::ostream: a stream that is not good takes no output.  *)
(***************************************************************************)
WriteLines(stream, lines) ==
    IF stream.good THEN [stream EXCEPT !.out = @ \o lines] ELSE stream

(* "# extended FROSTT format\n" *)
CommentLine == [kind |-> "comment", nums |-> <<>>]

(***************************************************************************)
(* The environment of the process: the variables that are set, each with   *)
(* its name and its value.  A name is a prefix and the decimal digits that *)
(* follow it.  TENSOR0 and TENSOR10 are set; TENSOR1 is not, TENSOR01 is.  *)
(***************************************************************************)
Environ ==
    { <<[prefix |-> "TENSOR", digits |-> <<0>>], "a.tns">>,
      <<[prefix |-> "TENSOR", digits |-> <<1, 0>>], "sym.mtx">>,
      <<[prefix |-> "TENSOR", digits |-> <<0, 1>>], "decoy.tns">>,
      <<[prefix |-> "TENSO", digits |-> <<1>>], "decoy.tns">> }

(* getenv: the value of the variable, if it is set. *)
Getenv(var) == {e[2] : e \in {x \in Environ : x[1] = var}}

(* The conversion "%" PRIu64 of snprintf: the decimal digits of n. *)
RECURSIVE DecimalDigits(_)
DecimalDigits(n) ==
    IF n < 10 THEN <<n>> ELSE DecimalDigits(n \div 10) \o <<n % 10>>

(* A faulty variant: TensorVarName that keeps the last digit of id only. *)
TensorVarName_LastDigit(id) == [prefix |-> "TENSOR", digits |-> <<id % 10>>]

(* snprintf(var, BUF_SIZE, "TENSOR%" PRIu64, id); the buffer holds every   *)
(* 64-bit id.                                                              *)
TensorVarName(id) == [prefix |-> "TENSOR", digits |-> DecimalDigits(id)]

(* getTensorFilename. *)
GetTensorFilename(id) ==
    /\ running
    /\ LET env == Getenv(TensorVarName(id))
       IN  IF env = {}
           THEN ProcessEnds([NoCall EXCEPT
                                !.op = "getTensorFilename", !.status = "fatal",
                                !.msg = "Environment variable is not set",
                                !.args = <<id>>])
           ELSE /\ \E value \in env :
                      last' = [Returned("getTensorFilename") EXCEPT
                                  !.fname = value, !.args = <<id>>]
                /\ UNCHANGED <<heap, handles, running, inserted, nextLog>>

(* A faulty variant: WriterUsesCout that selects std::cout for every       *)
(* filename.                                                               *)
WriterUsesCout_Always(filename) == TRUE

(***************************************************************************)
(* createSparseTensorWriter: an empty filename selects &std::cout, any     *)
(* other a new std::ofstream; the comment line is written to the stream.   *)
(***************************************************************************)
WriterUsesCout(filename) == filename = ""

CreateSparseTensorWriter(filename) ==
    /\ running
    /\ IF WriterUsesCout(filename)
       THEN /\ Len(heap[CoutAddr].out) < MaxLines
            /\ heap' = [heap EXCEPT ![CoutAddr] = WriteLines(@, <<CommentLine>>)]
            /\ handles' = handles \cup {CoutAddr}
            /\ last' = [Returned("createSparseTensorWriter") EXCEPT
                            !.ret = CoutAddr, !.fname = filename]
       ELSE /\ FreeAddrs(heap) # {}
            /\ LET a == NewAddr(heap)
                   hr == NewObj(AtEntry(heap), a,
                                WriteLines([NoObj EXCEPT !.kind = "writer",
                                                         !.live = TRUE,
                                                         !.good = TRUE],
                                           <<CommentLine>>))
               IN  /\ heap' = hr.heap
                   /\ handles' = handles \cup {a}
                   /\ last' = [Returned("createSparseTensorWriter") EXCEPT
                                   !.ret = a, !.fname = filename]
    /\ UNCHANGED <<running, inserted, nextLog>>

(***************************************************************************)
(* An output operation on the stream fails (the disk is full, the file     *)
(* could not be opened, the pipe is closed): the stream is no longer good. *)
(***************************************************************************)
StreamFails(p) ==
    /\ running
    /\ LiveKind(heap, p, "writer")
    /\ heap[p].good
    /\ heap' = [heap EXCEPT ![p].good = FALSE]
    /\ last' = [NoCall EXCEPT !.op = "streamFails", !.ptr = p]
    /\ UNCHANGED <<handles, running, inserted, nextLog>>

(* The header line and the line of dimension sizes. *)
WriterHeaderLines(dimRank, nse, dimSizes) ==
    << [kind |-> "header", nums |-> <<dimRank, nse>>],
       [kind |-> "sizes", nums |-> [d \in 1..dimRank |-> dimSizes[d]]] >>

(* _mlir_ciface_outSparseTensorWriterMetaData. *)
OutSparseTensorWriterMetaData(p, dimRank, nse, dimSizesRef) ==
    /\ running
    /\ p \in handles
    /\ LiveKind(heap, p, "writer")
    /\ ASSERT_NO_STRIDE(dimSizesRef)
    /\ dimRank # 0
    /\ dimRank <= MEMREF_GET_USIZE(dimSizesRef)
    /\ Len(heap[p].out) + 2 <= MaxLines + MaxWrites
    /\ heap' = [heap EXCEPT ![p] =
           WriteLines(@, WriterHeaderLines(dimRank, nse,
                                           MEMREF_GET_PAYLOAD(dimSizesRef)))]
    /\ last' = [Returned("outSparseTensorWriterMetaData") EXCEPT
                    !.ptr = p, !.args = <<dimRank, nse, dimSizesRef>>]
    /\ UNCHANGED <<handles, running, inserted, nextLog>>

(* A faulty variant: WriterElementLine that writes the coordinates as they *)
(* are, 0-based.                                                           *)
WriterElementLine_ZeroBased(dimRank, dimCoords, value) ==
    [kind |-> "element",
     nums |-> [d \in 1..dimRank |-> dimCoords[d]] \o <<value>>]

(* The line of one element: dimRank coordinates, each plus 1, then the     *)
(* value.                                                                  *)
WriterElementLine(dimRank, dimCoords, value) ==
    [kind |-> "element",
     nums |-> [d \in 1..dimRank |-> dimCoords[d] + 1] \o <<value>>]

(* _mlir_ciface_outSparseTensorWriterNext##VNAME. *)
OutSparseTensorWriterNext(p, dimRank, dimCoordsRef, vref) ==
    /\ running
    /\ p \in handles
    /\ LiveKind(heap, p, "writer")
    /\ ASSERT_NO_STRIDE(dimCoordsRef)
    /\ dimRank <= MEMREF_GET_USIZE(dimCoordsRef)
    /\ Len(heap[p].out) + 1 <= MaxLines + MaxWrites
    /\ heap' = [heap EXCEPT ![p] =
           WriteLines(@, <<WriterElementLine(dimRank,
                                             MEMREF_GET_PAYLOAD(dimCoordsRef),
                                             MEMREF_GET_SCALAR(vref))>>)]
    /\ last' = [Returned("outSparseTensorWriterNext") EXCEPT
                    !.ptr = p, !.args = <<dimRank, dimCoordsRef, vref>>]
    /\ UNCHANGED <<handles, running, inserted, nextLog>>

(* A failed assert: the process is aborted. *)
AssertFail(op, ptr) ==
    ProcessEnds([NoCall EXCEPT !.op = op, !.status = "abort",
                               !.msg = "assertion failed", !.ptr = ptr])

(***************************************************************************)
(* delSparseTensorWriter: flush; assert(file->good()); delete the stream   *)
(* unless it is std::cout.  The assertion is compiled in or out by the     *)
(* build (NDEBUG): assertions tells which.  The handle to std::cout stays  *)
(* good: the stream outlives the call, and another                         *)
(* createSparseTensorWriter may have returned the same handle.             *)
(***************************************************************************)
DelSparseTensorWriter(p, assertions) ==
    /\ running
    /\ p \in handles
    /\ LiveKind(heap, p, "writer")
    /\ IF assertions /\ ~heap[p].good
       THEN AssertFail("delSparseTensorWriter", p)
       ELSE IF p # CoutAddr
            THEN Release("delSparseTensorWriter", p, DeleteObj(AtEntry(heap), p))
            ELSE /\ last' = [Returned("delSparseTensorWriter") EXCEPT !.ptr = p]
                 /\ UNCHANGED <<heap, handles, running, inserted, nextLog>>

(***************************************************************************)
(* The state after start-up: no object but std::cout, no handle given out. *)
(***************************************************************************)
InitHeap ==
    /\ heap = EmptyHeap
    /\ handles = {}
    /\ last = NoCall
    /\ running = TRUE
    /\ inserted = NoHistory
    /\ nextLog = NoHistory

NoDispatchCall ==
    [entry |-> "none", posTp |-> "none", crdTp |-> "none", valTp |-> "none",
     action |-> "none"]

(***************************************************************************)
(* The arguments the caller draws from.  A 3 by 3 matrix stored in two     *)
(* compressed levels, in the identity order or transposed.                 *)
(***************************************************************************)
IdentityShape ==
    ShapeArgs(<<3, 3>>, <<3, 3>>, <<"compressed", "compressed">>, <<0, 1>>, <<0, 1>>)

TransposedShape ==
    ShapeArgs(<<3, 3>>, <<3, 3>>, <<"compressed", "compressed">>, <<1, 0>>, <<1, 0>>)

(***************************************************************************)
(* The tags of the calls: a supported triple (through the index alias)     *)
(* with each action and with an action outside the enumeration; and a call *)
(* with an unsupported triple.                                             *)
(***************************************************************************)
LifeCalls == {<<"kIndex", "kIndex", "kF64", action>> : action \in ActionTags}

UnsupportedCalls == {<<"kU8", "kU16", "kI8", "kEmpty">>}

(***************************************************************************)
(* The k-th element of a matrix filled in row order: element 0 is          *)
(* (0,0) -> 5, element 1 is (0,1) -> 6, ...                                *)
(***************************************************************************)
RowOrderElem(k) == <<<<k \div 3, k % 3>>, 5 + k>>

(* The level buffers handed to kPack: the first n elements, n <= MaxElems. *)
PackInputs == {[k \in 1..n |-> RowOrderElem(k)] : n \in 0..MaxElems}

(* The pointers and buffers a caller may pass with each action. *)
PtrArgs(action) ==
    IF action \in {"kEmpty", "kEmptyCOO", "kPack"} THEN {NullPtr} ELSE handles

BufferArgs(action) == IF action = "kPack" THEN PackInputs ELSE {<<>>}

Init ==
    /\ InitHeap
    /\ call = NoDispatchCall
    /\ res = Pending

(***************************************************************************)
(* Spec: storage instances, coordinate lists and iterators are made from   *)
(* one another, iterated and released.                                     *)
(***************************************************************************)
Next ==
    \/ \E c \in LifeCalls :
         \E ptr \in PtrArgs(c[4]), buffers \in BufferArgs(c[4]) :
            /\ NewSparseTensor(IdentityShape, c[1], c[2], c[3], c[4], ptr, buffers)
            /\ UNCHANGED dispatchVars
    \/ \E i \in handles :
            /\ GetNext(i, MemRef(<<9, 9, 9>>, 1), MemRef(<<0>>, 0))
            /\ UNCHANGED dispatchVars
    \/ \E t \in handles : DelSparseTensor(t) /\ UNCHANGED dispatchVars
    \/ \E c \in handles : DelSparseTensorCOO(c) /\ UNCHANGED dispatchVars
    \/ \E i \in handles : DelSparseTensorIterator(i) /\ UNCHANGED dispatchVars

Spec == Init /\ [][Next]_vars

(***************************************************************************)
(* SpecHandles: every entry point that returns a handle, and every         *)
(* release.  The objects stay empty.                                       *)
(***************************************************************************)
NextHandles ==
    \/ \E c \in LifeCalls \cup UnsupportedCalls :
         \E ptr \in PtrArgs(c[4]) :
            /\ NewSparseTensor(IdentityShape, c[1], c[2], c[3], c[4], ptr, <<>>)
            /\ UNCHANGED dispatchVars
    \/ \E t \in handles : DelSparseTensor(t) /\ UNCHANGED dispatchVars
    \/ \E c \in handles : DelSparseTensorCOO(c) /\ UNCHANGED dispatchVars
    \/ \E i \in handles : DelSparseTensorIterator(i) /\ UNCHANGED dispatchVars
    \/ \E ok \in BOOLEAN :
            /\ CreateCheckedSparseTensorReader("a.tns", MemRef(<<3, 3>>, 0), "kF64", ok)
            /\ UNCHANGED dispatchVars
    \/ \E p \in handles : DelSparseTensorReader(p) /\ UNCHANGED dispatchVars
    \/ \E f \in {"", "out.tns"} : CreateSparseTensorWriter(f) /\ UNCHANGED dispatchVars
    \/ \E p \in handles, assertions \in BOOLEAN :
            /\ DelSparseTensorWriter(p, assertions)
            /\ UNCHANGED dispatchVars

SpecHandles == Init /\ [][NextHandles]_vars

(***************************************************************************)
(* SpecInsert: one storage instance is built by insertion, finalized, read *)
(* and enumerated.  The caller inserts any of InsertElems in any order,    *)
(* from a coordinate memref with or without an offset.                     *)
(***************************************************************************)
InsertElems == {<<<<0, 1>>, 5>>, <<<<1, 2>>, 7>>, <<<<1, 0>>, 7>>}

Padded(seq, offset) == [i \in 1..offset |-> 9] \o seq

NoLive(kind) == \A a \in Addr : ~LiveKind(heap, a, kind)

NextInsert ==
    \/ /\ NoLive("tensor")
       /\ NewSparseTensor(IdentityShape, "kU32", "kU32", "kF64", "kEmpty", NullPtr, <<>>)
       /\ UNCHANGED dispatchVars
    \/ \E t \in handles, shape \in {IdentityShape, TransposedShape} :
            /\ NoLive("coo")
            /\ NewSparseTensor(shape, "kU32", "kU32", "kF64", "kToCOO", t, <<>>)
            /\ UNCHANGED dispatchVars
    \/ \E t \in handles, e \in InsertElems, offset \in {0, 1} :
            /\ LexInsert(t, MemRef(Padded(e[1], offset), offset), MemRef(<<e[2]>>, 0))
            /\ UNCHANGED dispatchVars
    \/ \E t \in handles : EndInsert(t) /\ UNCHANGED dispatchVars
    \/ \E t \in handles : SparseValues(t) /\ UNCHANGED dispatchVars
    \/ \E t \in handles : DelSparseTensor(t) /\ UNCHANGED dispatchVars
    \/ \E c \in handles : DelSparseTensorCOO(c) /\ UNCHANGED dispatchVars

SpecInsert == Init /\ [][NextInsert]_vars

(***************************************************************************)
(* SpecExp: one storage instance is filled row by row through expInsert,   *)
(* finalized and enumerated.  A row of the 3 by 3 matrix is expanded into  *)
(* a dense buffer of three values; slot c, when touched, holds 11 + c.     *)
(* The added buffer keeps a stale entry behind the count entries in use;   *)
(* every buffer starts one element into its allocation.  The caller stops  *)
(* inserting once it has called endInsert.                                 *)
(***************************************************************************)
AddedLists == {<<>>, <<0>>, <<2, 0>>, <<1, 2>>}

TouchedSlots(added) == {added[i] : i \in 1..Len(added)}

ValueBuffer(added) ==
    [c \in 1..3 |-> IF (c - 1) \in TouchedSlots(added) THEN 10 + c ELSE 0]

FillMask(added) == [c \in 1..3 |-> (c - 1) \in TouchedSlots(added)]

NextExp ==
    \/ /\ NoLive("tensor")
       /\ NewSparseTensor(IdentityShape, "kU32", "kU32", "kF64", "kEmpty", NullPtr, <<>>)
       /\ UNCHANGED dispatchVars
    \/ \E t \in handles :
            /\ NoLive("coo")
            /\ NewSparseTensor(IdentityShape, "kU32", "kU32", "kF64", "kToCOO", t, <<>>)
            /\ UNCHANGED dispatchVars
    \/ \E t \in handles, row \in {0, 1}, added \in AddedLists :
            /\ heap[t].open
            /\ ExpInsert(t, MemRef(Padded(<<row, 0>>, 1), 1),
                            MemRef(Padded(ValueBuffer(added), 1), 1),
                            MemRef(Padded(FillMask(added), 1), 1),
                            MemRef(Padded(added \o <<1>>, 1), 1),
                            Len(added))
            /\ UNCHANGED dispatchVars
    \/ \E t \in handles : EndInsert(t) /\ UNCHANGED dispatchVars
    \/ \E t \in handles : DelSparseTensor(t) /\ UNCHANGED dispatchVars
    \/ \E c \in handles : DelSparseTensorCOO(c) /\ UNCHANGED dispatchVars

SpecExp == Init /\ [][NextExp]_vars

(***************************************************************************)
(* SpecRound: a coordinate list is filled through addElt, a storage        *)
(* instance is built from it or built empty, and enumerated into a new     *)
(* list; under the identity or the transposed ordering, with one of two    *)
(* type triples.  dim2lvl of addElt is one of the two permutations of two  *)
(* dimensions, or not a permutation.  The caller fills a list before it    *)
(* builds from it, and keeps at most two lists at a time.                  *)
(***************************************************************************)
RoundTriples == {<<"kIndex", "kIndex", "kF64">>, <<"kU64", "kU32", "kF64">>}

RoundShapes == {IdentityShape, TransposedShape}

AddEltCoords == {<<0, 1>>, <<1, 0>>}

AddEltMaps == {<<0, 1>>, <<1, 0>>, <<0, 0>>}

NextRound ==
    \/ \E tp \in RoundTriples, shape \in RoundShapes, action \in {"kEmpty", "kEmptyCOO"} :
            /\ NoLive("tensor")
            /\ NoLive("coo")
            /\ NewSparseTensor(shape, tp[1], tp[2], tp[3], action, NullPtr, <<>>)
            /\ UNCHANGED dispatchVars
    \/ \E tp \in RoundTriples, shape \in RoundShapes, c \in handles :
            /\ NoLive("tensor")
            /\ NewSparseTensor(shape, tp[1], tp[2], tp[3], "kFromCOO", c, <<>>)
            /\ UNCHANGED dispatchVars
    \/ \E tp \in RoundTriples, shape \in RoundShapes, t \in handles :
            /\ Cardinality({a \in Addr : LiveKind(heap, a, "coo")}) <= 1
            /\ NewSparseTensor(shape, tp[1], tp[2], tp[3], "kToCOO", t, <<>>)
            /\ UNCHANGED dispatchVars
    \/ \E c \in handles, dimCoords \in AddEltCoords, dim2lvl \in AddEltMaps,
          value \in {5, 7} :
            /\ NoLive("tensor")
            /\ Cardinality({a \in Addr : LiveKind(heap, a, "coo")}) = 1
            /\ AddElt(c, MemRef(<<value>>, 0), MemRef(Padded(dimCoords, 1), 1),
                         MemRef(dim2lvl, 0))
            /\ UNCHANGED dispatchVars
    \/ \E t \in handles : DelSparseTensor(t) /\ UNCHANGED dispatchVars
    \/ \E c \in handles : DelSparseTensorCOO(c) /\ UNCHANGED dispatchVars

SpecRound == Init /\ [][NextRound]_vars

(***************************************************************************)
(* SpecWriter: writers on std::cout and on a file, one file at a time.     *)
(* The caller writes the header of a 3 by 3 matrix with two elements, and  *)
(* the elements in row order: the k-th element line of a stream holds      *)
(* RowOrderElem(k).  The calls come in any order; a stream may fail at any *)
(* time.                                                                   *)
(***************************************************************************)
ElementLines(stream) ==
    Cardinality({k \in 1..Len(stream.out) : stream.out[k].kind = "element"})

NextWriter ==
    \/ \E f \in {"", "out.tns"} :
            /\ f # "" => \A a \in 1..MaxAddr : ~LiveKind(heap, a, "writer")
            /\ CreateSparseTensorWriter(f)
            /\ UNCHANGED dispatchVars
    \/ \E p \in handles :
            /\ OutSparseTensorWriterMetaData(p, 2, 2, MemRef(<<9, 3, 3>>, 1))
            /\ UNCHANGED dispatchVars
    \/ \E p \in handles :
            /\ LET e == RowOrderElem(ElementLines(heap[p]))
               IN  OutSparseTensorWriterNext(p, 2, MemRef(Padded(e[1], 1), 1),
                                             MemRef(<<e[2]>>, 0))
            /\ UNCHANGED dispatchVars
    \/ \E p \in Addr : StreamFails(p) /\ UNCHANGED dispatchVars
    \/ \E p \in handles, assertions \in BOOLEAN :
            /\ DelSparseTensorWriter(p, assertions)
            /\ UNCHANGED dispatchVars

SpecWriter == Init /\ [][NextWriter]_vars

(***************************************************************************)
(* SpecReader: the names of files are looked up in the environment;        *)
(* readers are opened on the files of the model, read into                 *)
(* buffers that pass the assertions, and released.  The value buffer       *)
(* holds nse, nse + 1 or nse + 2 values, the coordinate buffer twice as    *)
(* many coordinates.                                                       *)
(***************************************************************************)
ZeroBuffer(n) == MemRef([i \in 1..n |-> 0], 0)

TensorIds == {0, 1, 10}

NextReader ==
    \/ \E id \in TensorIds : GetTensorFilename(id) /\ UNCHANGED dispatchVars
    \/ \E f \in {"a.tns", "sym.mtx", "none.tns"} :
            /\ CreateCheckedSparseTensorReader(f, MemRef(<<3, 3>>, 0), "kF64",
                                               f # "none.tns")
            /\ UNCHANGED dispatchVars
    \/ \E p \in handles, shape \in {IdentityShape, TransposedShape}, extra \in 0..2 :
            /\ ReadToBuffers(p, shape.dim2lvlRef, shape.lvl2dimRef,
                                ZeroBuffer(2 * (heap[p].nse + extra)),
                                ZeroBuffer(heap[p].nse + extra))
            /\ UNCHANGED dispatchVars
    \/ \E p \in handles : DelSparseTensorReader(p) /\ UNCHANGED dispatchVars

SpecReader == Init /\ [][NextReader]_vars

(***************************************************************************)
(* SpecAccess: the arrays of a storage instance are read through the       *)
(* accessors at any time, while the instance is packed from buffers or     *)
(* built empty and filled by lexInsert.                                    *)
(***************************************************************************)
NextAccess ==
    \/ \E action \in {"kEmpty", "kPack"}, buffers \in PackInputs :
            /\ NoLive("tensor")
            /\ action = "kEmpty" => buffers = <<>>
            /\ NewSparseTensor(IdentityShape, "kU32", "kU32", "kF64", action,
                               NullPtr, buffers)
            /\ UNCHANGED dispatchVars
    \/ \E t \in handles, e \in InsertElems :
            /\ heap[t].ctor = "newEmpty"
            /\ LexInsert(t, MemRef(e[1], 0), MemRef(<<e[2]>>, 0))
            /\ UNCHANGED dispatchVars
    \/ \E t \in handles : SparseValues(t) /\ UNCHANGED dispatchVars
    \/ \E t \in handles, lvl \in {0, 1} :
            /\ SparsePositions(t, lvl)
            /\ UNCHANGED dispatchVars
    \/ \E t \in handles, lvl \in {0, 1} :
            /\ SparseCoordinates(t, lvl)
            /\ UNCHANGED dispatchVars
    \/ \E t \in handles : DelSparseTensor(t) /\ UNCHANGED dispatchVars

SpecAccess == Init /\ [][NextAccess]_vars

DispatchCalls ==
    [entry : {"newSparseTensor"}, posTp : OverheadTags, crdTp : OverheadTags,
     valTp : PrimaryTags, action : ActionTags]
    \cup
    [entry : {"newSparseTensorFromReader"}, posTp : OverheadTags,
     crdTp : OverheadTags, valTp : PrimaryTags, action : {"none"}]

InitDispatch ==
    /\ call \in DispatchCalls
    /\ res = Pending
    /\ InitHeap

CallNewSparseTensor ==
    /\ res.status = "pending"
    /\ call.entry = "newSparseTensor"
    /\ res' = newSparseTensorDispatch(call.posTp, call.crdTp, call.valTp, call.action)
    /\ UNCHANGED <<call, heapVars>>

CallNewSparseTensorFromReader ==
    /\ res.status = "pending"
    /\ call.entry = "newSparseTensorFromReader"
    /\ res' = newSparseTensorFromReaderDispatch(call.posTp, call.crdTp, call.valTp)
    /\ UNCHANGED <<call, heapVars>>

NextDispatch ==
    \/ CallNewSparseTensor
    \/ CallNewSparseTensorFromReader

SpecDispatch == InitDispatch /\ [][NextDispatch]_vars

(***************************************************************************)
(* The supported set of type triples, as the specification words it:       *)
(* F64 and F32 with every pair of widths; F16, BF16, I64, I32, I16 and I8  *)
(* with equal widths; C64 and C32 with both widths 64-bit.                 *)
(***************************************************************************)
Widths == {"kU64", "kU32", "kU16", "kU8"}

SupportedTriples ==
    {<<p, c, v>> : p \in Widths, c \in Widths, v \in {"kF64", "kF32"}}
    \cup {<<p, p, v>> : p \in Widths,
                        v \in {"kF16", "kBF16", "kI64", "kI32", "kI16", "kI8"}}
    \cup {<<"kU64", "kU64", v>> : v \in {"kC64", "kC32"}}

(* The 64-bit width that the index alias stands for. *)
ResolveIndex(tp) == IF tp = "kIndex" THEN "kU64" ELSE tp

(* The C++ type each tag names. *)
OverheadTypeNamed(tp) ==
    CASE tp = "kU64" -> "uint64_t"
      [] tp = "kU32" -> "uint32_t"
      [] tp = "kU16" -> "uint16_t"
      [] tp = "kU8" -> "uint8_t"
      [] OTHER -> "none"

PrimaryTypeNamed(tp) ==
    CASE tp = "kF64" -> "double"
      [] tp = "kF32" -> "float"
      [] tp = "kF16" -> "f16"
      [] tp = "kBF16" -> "bf16"
      [] tp = "kI64" -> "int64_t"
      [] tp = "kI32" -> "int32_t"
      [] tp = "kI16" -> "int16_t"
      [] tp = "kI8" -> "int8_t"
      [] tp = "kC64" -> "complex64"
      [] tp = "kC32" -> "complex32"
      [] OTHER -> "none"

CallTriple == <<ResolveIndex(call.posTp), ResolveIndex(call.crdTp), call.valTp>>

(***************************************************************************)
(* C1.  A call of either dispatcher with a triple outside the supported    *)
(* set ends in the fatal "unsupported combination of types" diagnostic and *)
(* returns no handle, whatever the action tag is.                          *)
(***************************************************************************)
C1_UnsupportedIsFatal ==
    (res.status # "pending" /\ CallTriple \notin SupportedTriples)
        => (res.status = "fatal" /\ res.msg = "unsupported combination of types")

C1_Witness ==
    /\ call.entry = "newSparseTensor"
    /\ call.posTp = "kU64" /\ call.crdTp = "kU32" /\ call.valTp = "kI8"
    /\ call.action = "kEmpty"
    /\ res.status = "fatal"

(***************************************************************************)
(* C2.  For a supported triple _mlir_ciface_newSparseTensor matches        *)
(* exactly one CASE, and for each of the seven actions the specialization  *)
(* it invokes has the position, coordinate and value types the three tags  *)
(* name.                                                                   *)
(***************************************************************************)
C2_UniqueExactSpecialization ==
    (/\ res.status # "pending"
     /\ call.entry = "newSparseTensor"
     /\ CallTriple \in SupportedTriples)
        => /\ Cardinality({i \in 1..Len(newSparseTensorCases) :
                  CaseMatches(newSparseTensorCases[i],
                              CallTriple[1], CallTriple[2], CallTriple[3])}) = 1
           /\ call.action \in Actions =>
                /\ res.status = "return"
                /\ res.action = call.action
                /\ res.P = OverheadTypeNamed(CallTriple[1])
                /\ res.C = OverheadTypeNamed(CallTriple[2])
                /\ res.V = PrimaryTypeNamed(CallTriple[3])

C2_Witness ==
    /\ call.entry = "newSparseTensor"
    /\ call.posTp = "kU32" /\ call.crdTp = "kU32" /\ call.valTp = "kI32"
    /\ call.action = "kToCOO"
    /\ res.status = "return"
    /\ res.P = "uint32_t" /\ res.C = "uint32_t" /\ res.V = "int32_t"

(***************************************************************************)
(* C3.  A call with kIndex as the position tag, the coordinate tag or both *)
(* has the outcome of the call with kU64 in that place: the same           *)
(* specialization and action, or the same fatal diagnostic.                *)
(***************************************************************************)
C3_IndexAliasIsU64 ==
    (res.status # "pending" /\ "kIndex" \in {call.posTp, call.crdTp})
        => res = IF call.entry = "newSparseTensor"
                 THEN newSparseTensorDispatch(ResolveIndex(call.posTp),
                          ResolveIndex(call.crdTp), call.valTp, call.action)
                 ELSE newSparseTensorFromReaderDispatch(ResolveIndex(call.posTp),
                          ResolveIndex(call.crdTp), call.valTp)

C3_Witness ==
    /\ call.entry = "newSparseTensor"
    /\ call.posTp = "kU32" /\ call.crdTp = "kIndex" /\ call.valTp = "kF64"
    /\ call.action = "kEmpty"
    /\ res.status = "return"
    /\ res.P = "uint32_t" /\ res.C = "uint64_t"

(***************************************************************************)
(* The call that has just returned, as the claims below speak of it.       *)
(***************************************************************************)
ReturnedAction(action) ==
    /\ running
    /\ last.op = "newSparseTensor"
    /\ last.status = "return"
    /\ last.action = action

C5_SourceUnchanged ==
    [][(/\ running'
        /\ last'.op = "newSparseTensor"
        /\ last'.status = "return"
        /\ last'.action \in {"kSparseToSparse", "kToCOO", "kToIterator"})
         => /\ heap[last'.ptr].live
            /\ heap'[last'.ptr] = heap[last'.ptr]
            /\ last'.ptr \in handles'
            /\ last'.deleted = <<>>
            /\ last'.ret # last'.ptr
            /\ ~heap[last'.ret].live
            /\ heap'[last'.ret].live
            /\ last'.ret \notin handles]_vars

C5_Witness ==
    /\ ReturnedAction("kToCOO")
    /\ Len(heap[last.ptr].elems) >= 1
    /\ LiveKind(heap, last.ptr, "tensor")
    /\ LiveKind(heap, last.ret, "coo")

(***************************************************************************)
(* C6.  An iterator owns the coordinate list it enumerates and nobody else *)
(* does: the list of a live iterator is live, the caller has no handle to  *)
(* it and no other iterator holds it; a live list the caller has no handle *)
(* to belongs to a live iterator (none is left behind); and                *)
(* delSparseTensorIterator deletes two objects, each once: the list, then  *)
(* the iterator.                                                           *)
(***************************************************************************)
C6_IteratorOwnsItsList ==
    /\ \A i \in Addr : LiveKind(heap, i, "iter") =>
          /\ LiveKind(heap, heap[i].coo, "coo")
          /\ heap[i].coo \notin handles
          /\ \A j \in Addr \ {i} :
                LiveKind(heap, j, "iter") => heap[j].coo # heap[i].coo
    /\ \A c \in Addr : (LiveKind(heap, c, "coo") /\ c \notin handles) =>
          \E i \in Addr : LiveKind(heap, i, "iter") /\ heap[i].coo = c
    /\ (running /\ last.op = "delSparseTensorIterator") =>
          /\ Len(last.deleted) = 2
          /\ last.deleted[2] = last.ptr
          /\ last.deleted[1] # last.ptr
          /\ ~heap[last.deleted[1]].live
          /\ ~heap[last.ptr].live

C6_Witness ==
    /\ running
    /\ last.op = "delSparseTensorIterator"
    /\ Len(last.deleted) = 2
    /\ \E t \in handles : LiveKind(heap, t, "tensor") /\ Len(heap[t].elems) >= 1

(***************************************************************************)
(* C7.  For a live iterator over a list of N elements, the k-th getNext    *)
(* call has returned the continue flag when k <= N and the stop flag when  *)
(* k > N, for every call made so far, whatever else has been called in     *)
(* between.                                                                *)
(***************************************************************************)
C7_ExhaustedForGood ==
    \A i \in Addr : LiveKind(heap, i, "iter") =>
        \A k \in 1..Len(nextLog[i]) :
            nextLog[i][k] = (k <= Len(heap[heap[i].coo].elems))

C7_Witness ==
    \E i \in Addr :
        /\ LiveKind(heap, i, "iter")
        /\ Len(heap[heap[i].coo].elems) >= 1
        /\ Len(nextLog[i]) >= Len(heap[heap[i].coo].elems) + 2
        /\ last.op = "getNext" /\ last.ptr = i /\ ~last.flag

(***************************************************************************)
(* The entry points that return a handle to the caller.                    *)
(***************************************************************************)
ConstructorOps ==
    {"newSparseTensor", "createCheckedSparseTensorReader", "createSparseTensorWriter"}

(***************************************************************************)
(* C8.  As stated: every call of a constructor-like entry point returns a  *)
(* handle distinct from every handle live at that moment, two              *)
(* createSparseTensorWriter calls with an empty filename included.         *)
(***************************************************************************)
C8_Original_AllHandlesFresh ==
    [][(/\ running'
        /\ last'.op \in ConstructorOps
        /\ last'.status = "return")
         => last'.ret \notin handles]_vars

(***************************************************************************)
(* C8, amended.  Every call of newSparseTensor that returns, of            *)
(* createCheckedSparseTensorReader and of createSparseTensorWriter with a  *)
(* non-empty filename returns the handle of an object that did not exist   *)
(* before, distinct from every handle the caller holds, and the release of *)
(* a handle deletes its object once.  createSparseTensorWriter with an     *)
(* empty filename returns the address of std::cout every time: that handle *)
(* is shared by all such calls, and delSparseTensorWriter on it deletes    *)
(* nothing.                                                                *)
(***************************************************************************)
C8_HandlesFreshExceptCout ==
    [][/\ (/\ running'
           /\ last'.op \in ConstructorOps
           /\ last'.status = "return"
           /\ ~(last'.op = "createSparseTensorWriter" /\ last'.fname = ""))
            => /\ last'.ret \notin handles
               /\ ~heap[last'.ret].live
               /\ heap'[last'.ret].live
               /\ last'.ret # CoutAddr
               /\ handles' = handles \cup {last'.ret}
       /\ (/\ running'
           /\ last'.op = "createSparseTensorWriter"
           /\ last'.fname = "")
            => /\ last'.ret = CoutAddr
               /\ handles' = handles \cup {CoutAddr}
       /\ (/\ running'
           /\ last'.op \in {"delSparseTensor", "delSparseTensorCOO",
                            "delSparseTensorReader", "delSparseTensorWriter"})
            => IF last'.ptr = CoutAddr
               THEN last'.deleted = <<>> /\ heap'[CoutAddr].live
               ELSE /\ last'.deleted = <<last'.ptr>>
                    /\ heap[last'.ptr].live
                    /\ ~heap'[last'.ptr].live
                    /\ handles' = handles \ {last'.ptr}]_vars

C8_Witness ==
    /\ running
    /\ last.op = "createSparseTensorWriter"
    /\ last.fname = ""
    /\ last.ret = CoutAddr
    /\ Len(heap[CoutAddr].out) = 2
    /\ \E a \in handles \ {CoutAddr} : LiveKind(heap, a, "writer")

(***************************************************************************)
(* C9.  As stated: the entry points respect the insertion state: lexInsert *)
(* takes effect only on an instance that is still open, and sparseValues   *)
(* returns data only for an instance that endInsert has finalized.         *)
(***************************************************************************)
C9_Original_EntryPointsRespectState ==
    [][/\ (running' /\ last'.op = "lexInsert" /\ heap'[last'.ptr] # heap[last'.ptr])
            => heap[last'.ptr].open
       /\ (running' /\ last'.op = "sparseValues" /\ last'.out.size > 0)
            => ~heap[last'.ptr].open
       /\ (running' /\ last'.op = "endInsert") => ~heap'[last'.ptr].open]_vars

(***************************************************************************)
(* C9, amended.  A storage instance is open for insertion when it is       *)
(* constructed; only endInsert takes it out of that state, endInsert       *)
(* always does, and nothing opens it again.  The entry points do not look  *)
(* at the state: sparseValues returns the value array the instance holds   *)
(* whether it is open or finalized, and lexInsert on an open instance with *)
(* growing coordinates stores the element.  Inserting only before          *)
(* endInsert and reading only after it is left to the caller.              *)
(***************************************************************************)
C9_OpenUntilEndInsert ==
    [][/\ \A a \in Addr :
            /\ (~LiveKind(heap, a, "tensor") /\ LiveKind(heap', a, "tensor"))
                  => heap'[a].open
            /\ (LiveKind(heap, a, "tensor") /\ LiveKind(heap', a, "tensor")) =>
                  /\ (heap[a].open /\ ~heap'[a].open)
                        => (last'.op = "endInsert" /\ last'.ptr = a)
                  /\ ~heap[a].open => ~heap'[a].open
       /\ (running' /\ last'.op = "endInsert") => ~heap'[last'.ptr].open
       /\ (running' /\ last'.op = "sparseValues") =>
            /\ last'.out.size = Len(heap[last'.ptr].elems)
            /\ \A k \in 1..last'.out.size :
                  last'.out.data[k] = heap[last'.ptr].elems[k][2]
       /\ (/\ running'
           /\ last'.op = "lexInsert"
           /\ heap[last'.ptr].open
           /\ \/ heap[last'.ptr].elems = <<>>
              \/ LexLess(heap[last'.ptr].elems[Len(heap[last'.ptr].elems)][1],
                         inserted'[last'.ptr][Len(inserted'[last'.ptr])][1]))
            => Len(heap'[last'.ptr].elems) = Len(heap[last'.ptr].elems) + 1]_vars

C9_Witness ==
    /\ running
    /\ last.op = "sparseValues"
    /\ LiveKind(heap, last.ptr, "tensor")
    /\ heap[last.ptr].open
    /\ last.out.size >= 1

(***************************************************************************)
(* Strictly lexicographically increasing coordinates, all of them given    *)
(* while the instance was open.                                            *)
(***************************************************************************)
OrderedInsertion(ins) ==
    /\ \A k \in 1..Len(ins) : ins[k][3]
    /\ \A k \in 1..(Len(ins) - 1) : LexLess(ins[k][1], ins[k + 1][1])

(***************************************************************************)
(* C10.  kToCOO on an instance made by kEmpty, filled by lexInsert calls   *)
(* with strictly increasing level coordinates and then finalized by        *)
(* endInsert, returns a list that holds the inserted values each once, in  *)
(* insertion order, every one with its coordinates arranged by the         *)
(* ordering the call gives; under the identity ordering these are exactly  *)
(* the inserted (coordinates, value) pairs.                                *)
(***************************************************************************)
C10_OrderedInsertRoundTrip ==
    (/\ ReturnedAction("kToCOO")
     /\ heap[last.ptr].ctor = "newEmpty"
     /\ ~heap[last.ptr].open
     /\ OrderedInsertion(inserted[last.ptr]))
        => LET ins == inserted[last.ptr]
               out == heap[last.ret].elems
           IN  /\ Len(out) = Len(ins)
               /\ \A k \in 1..Len(ins) :
                     /\ out[k][2] = ins[k][2]
                     /\ \A l \in 1..Len(ins[k][1]) :
                           out[k][1][last.dim2lvl[heap[last.ptr].lvl2dim[l] + 1] + 1]
                               = ins[k][1][l]
               /\ (last.dim2lvl = <<0, 1>> /\ heap[last.ptr].lvl2dim = <<0, 1>>) =>
                     out = [k \in 1..Len(ins) |-> <<ins[k][1], ins[k][2]>>]

C10_Witness ==
    /\ ReturnedAction("kToCOO")
    /\ last.dim2lvl = <<0, 1>>
    /\ heap[last.ptr].ctor = "newEmpty"
    /\ ~heap[last.ptr].open
    /\ inserted[last.ptr] = << <<<<0, 1>>, 5, TRUE>>, <<<<1, 2>>, 7, TRUE>> >>
    /\ heap[last.ret].elems = << <<<<0, 1>>, 5>>, <<<<1, 2>>, 7>> >>

(***************************************************************************)
(* C11.  An expInsert call on an open instance, for one outer prefix, with *)
(* a fill-mask that marks exactly the slots named by the first count       *)
(* entries of added, those slots distinct and their coordinates above the  *)
(* last stored ones, appends exactly the touched pairs: one entry per      *)
(* added inner coordinate, under the prefix, with the value of that slot   *)
(* of the buffer, and none for an untouched slot; what was stored before   *)
(* stays.  endInsert keeps the stored entries, and kToCOO under the        *)
(* identity ordering, on an instance made under it, lists exactly the      *)
(* stored entries, so that the enumeration after endInsert holds the       *)
(* touched pairs.                                                          *)
(***************************************************************************)
C11_ExpInsertStoresTouched ==
    [][/\ (running' /\ last'.op = "expInsert") =>
            LET t == last'.ptr
                rank == heap[t].rank
                prefix == SubSeq(MEMREF_GET_PAYLOAD(last'.args[1]), 1, rank - 1)
                values == MEMREF_GET_PAYLOAD(last'.args[2])
                filled == MEMREF_GET_PAYLOAD(last'.args[3])
                count == last'.args[5]
                added == SubSeq(MEMREF_GET_PAYLOAD(last'.args[4]), 1, count)
                touched == {added[i] : i \in 1..count}
                old == heap[t].elems
                new == heap'[t].elems
            IN  (/\ heap[t].open
                 /\ Cardinality(touched) = count
                 /\ \A c \in 0..(Len(values) - 1) : filled[c + 1] <=> c \in touched
                 /\ \/ old = <<>>
                    \/ \A c \in touched : LexLess(old[Len(old)][1], prefix \o <<c>>))
                => /\ Len(new) = Len(old) + count
                   /\ SubSeq(new, 1, Len(old)) = old
                   /\ {new[k] : k \in (Len(old) + 1)..Len(new)}
                         = {<<prefix \o <<c>>, values[c + 1]>> : c \in touched}
       /\ (running' /\ last'.op = "endInsert")
            => heap'[last'.ptr].elems = heap[last'.ptr].elems
       /\ (/\ running'
           /\ last'.op = "newSparseTensor"
           /\ last'.action = "kToCOO"
           /\ last'.dim2lvl = <<0, 1>>
           /\ heap[last'.ptr].lvl2dim = <<0, 1>>)
            => heap'[last'.ret].elems = heap[last'.ptr].elems]_vars

C11_Witness ==
    /\ ReturnedAction("kToCOO")
    /\ ~heap[last.ptr].open
    /\ inserted[last.ptr] = << <<<<1, 2>>, 13, TRUE>>, <<<<1, 0>>, 11, TRUE>> >>
    /\ heap[last.ret].elems = << <<<<1, 0>>, 11>>, <<<<1, 2>>, 13>> >>

(* The elements of a list sorted by coordinates. *)
SortedElems(es) == \A k \in 1..(Len(es) - 1) : ~LexLess(es[k + 1][1], es[k][1])

(* The number of places of a list that hold the element e. *)
Occurrences(es, e) == Cardinality({k \in 1..Len(es) : es[k] = e})

(* The call enumerates under the ordering the instance was made under. *)
SameOrdering(tensor, dim2lvl) ==
    /\ Len(dim2lvl) = tensor.rank
    /\ \A l \in 1..tensor.rank : dim2lvl[tensor.lvl2dim[l] + 1] = l - 1

(***************************************************************************)
(* C12.  kToCOO on an instance made by kEmpty and given nothing returns a  *)
(* list with no elements.  kToCOO on an instance made by kFromCOO from a   *)
(* list L, under the ordering the instance was made under, returns a list  *)
(* that holds exactly the (coordinates, value) pairs of L, each as many    *)
(* times as L holds it; sorted by coordinates; and equal to L when L was   *)
(* sorted.                                                                 *)
(***************************************************************************)
C12_EmptyAndFromCOORoundTrip ==
    ReturnedAction("kToCOO") =>
        LET tensor == heap[last.ptr]
            given == inserted[last.ptr]
            L == [k \in 1..Len(given) |-> <<given[k][1], given[k][2]>>]
            out == heap[last.ret].elems
        IN  /\ (tensor.ctor = "newEmpty" /\ given = <<>>) => out = <<>>
            /\ (tensor.ctor = "other" /\ SameOrdering(tensor, last.dim2lvl)) =>
                  /\ Len(out) = Len(L)
                  /\ \A k \in 1..Len(L) : Occurrences(out, L[k]) = Occurrences(L, L[k])
                  /\ SortedElems(out)
                  /\ SortedElems(L) => out = L

C12_Witness ==
    /\ ReturnedAction("kToCOO")
    /\ heap[last.ptr].ctor = "other"
    /\ heap[last.ptr].tp = <<"uint64_t", "uint32_t", "double">>
    /\ heap[last.ptr].lvl2dim = <<1, 0>>
    /\ last.dim2lvl = <<1, 0>>
    /\ inserted[last.ptr] = << <<<<1, 0>>, 7, TRUE>>, <<<<0, 1>>, 5, TRUE>> >>
    /\ heap[last.ret].elems = << <<<<0, 1>>, 5>>, <<<<1, 0>>, 7>> >>

(***************************************************************************)
(* C13.  As stated: delSparseTensorWriter on a stream that is not in a     *)
(* good state always ends the process with a diagnostic, whether or not    *)
(* the build has assertions enabled.                                       *)
(***************************************************************************)
C13_BadStreamAlwaysFatal ==
    [][\A p \in Addr :
          (/\ LiveKind(heap, p, "writer")
           /\ ~heap[p].good
           /\ last'.op = "delSparseTensorWriter"
           /\ last'.ptr = p)
            => (/\ ~running'
                /\ last'.status \in {"fatal", "abort"})]_vars

(***************************************************************************)
(* C14.  As stated: whatever the sequence of writer calls, the output of a *)
(* writer is the comment line, then the header line and the line of        *)
(* dimension sizes once, then element lines only.                          *)
(***************************************************************************)
C14_Original_HeaderOnceBeforeElements ==
    \A p \in Addr :
        LiveKind(heap, p, "writer") =>
            \A k \in 1..Len(heap[p].out) :
                heap[p].out[k].kind =
                    CASE k = 1 -> "comment"
                      [] k = 2 -> "header"
                      [] k = 3 -> "sizes"
                      [] OTHER -> "element"

(***************************************************************************)
(* C14, amended.  Every writer call appends its own lines to the stream,   *)
(* in call order, as long as the stream is good, and leaves every other    *)
(* stream alone: createSparseTensorWriter the comment line, each           *)
(* outSparseTensorWriterMetaData the header line "dimRank nse" and the     *)
(* line of the first dimRank dimension sizes, each                         *)
(* outSparseTensorWriterNext one line with the first dimRank coordinates,  *)
(* each plus 1, and the value.  The output of a stream starts with a       *)
(* comment line.  Nothing more is enforced: the header comes once and      *)
(* before the element lines only when the caller calls MetaData once and   *)
(* before any Next.                                                        *)
(***************************************************************************)
C14_EachCallAppendsItsLines ==
    [][/\ \A p \in Addr :
            (LiveKind(heap', p, "writer") /\ heap'[p].out # <<>>)
                => heap'[p].out[1] = [kind |-> "comment", nums |-> <<>>]
       /\ (/\ running'
           /\ last'.op \in {"createSparseTensorWriter",
                             "outSparseTensorWriterMetaData",
                             "outSparseTensorWriterNext"}) =>
            LET p == IF last'.op = "createSparseTensorWriter"
                     THEN last'.ret ELSE last'.ptr
                a == last'.args
                before == IF LiveKind(heap, p, "writer") THEN heap[p].out ELSE <<>>
                lines ==
                    CASE last'.op = "createSparseTensorWriter" ->
                            << [kind |-> "comment", nums |-> <<>>] >>
                      [] last'.op = "outSparseTensorWriterMetaData" ->
                            << [kind |-> "header", nums |-> <<a[1], a[2]>>],
                               [kind |-> "sizes",
                                nums |-> SubSeq(MEMREF_GET_PAYLOAD(a[3]), 1, a[1])] >>
                      [] last'.op = "outSparseTensorWriterNext" ->
                            << [kind |-> "element",
                                nums |-> [d \in 1..a[1] |->
                                             MEMREF_GET_PAYLOAD(a[2])[d] + 1]
                                         \o <<MEMREF_GET_SCALAR(a[3])>>] >>
            IN  /\ heap'[p].out = IF heap'[p].good THEN before \o lines ELSE before
                /\ \A q \in Addr \ {p} :
                      LiveKind(heap, q, "writer") =>
                          (LiveKind(heap', q, "writer") /\ heap'[q].out = heap[q].out)]_vars

C14_Witness ==
    /\ running
    /\ last.op = "outSparseTensorWriterNext"
    /\ last.ptr # CoutAddr
    /\ heap[last.ptr].out =
          << [kind |-> "comment", nums |-> <<>>],
             [kind |-> "header", nums |-> <<2, 2>>],
             [kind |-> "sizes", nums |-> <<3, 3>>],
             [kind |-> "element", nums |-> <<1, 1, 5>>],
             [kind |-> "element", nums |-> <<1, 2, 6>>] >>

(* The lines of a reader's file off the diagonal, and on it. *)
OffDiagonal(reader) ==
    Cardinality({k \in 1..Len(reader.elems) :
                    reader.elems[k][1][1] # reader.elems[k][1][2]})

OnDiagonal(reader) == Len(reader.elems) - OffDiagonal(reader)

(***************************************************************************)
(* C15.  As stated: a read-to-buffers call on a reader of a symmetric file *)
(* with K off-diagonal and M diagonal lines writes 2K+M entries, and       *)
(* with the entry point's assertions passed no entry is written past the   *)
(* end of the value buffer or of the coordinate buffer.                    *)
(***************************************************************************)
C15_SymmetricReadFitsBuffers ==
    [][\A p \in Addr :
          (/\ LiveKind(heap, p, "reader")
           /\ heap[p].symmetric
           /\ last'.op = "readToBuffers"
           /\ last'.ptr = p)
            => /\ last'.val = 2 * OffDiagonal(heap[p]) + OnDiagonal(heap[p])
               /\ last'.val <= MEMREF_GET_USIZE(last'.args[4])
               /\ MEMREF_GET_USIZE(last'.args[2]) * last'.val
                     <= MEMREF_GET_USIZE(last'.args[3])]_vars

(* The number a sequence of decimal digits denotes. *)
RECURSIVE NumberOf(_)
NumberOf(ds) ==
    IF ds = <<>> THEN 0
    ELSE 10 * NumberOf(SubSeq(ds, 1, Len(ds) - 1)) + ds[Len(ds)]

(* The values of the variables named TENSOR<id>, id written in decimal     *)
(* without leading zeros.                                                  *)
TensorVarValues(id) ==
    {e[2] : e \in {x \in Environ :
                      /\ x[1].prefix = "TENSOR"
                      /\ NumberOf(x[1].digits) = id
                      /\ (Len(x[1].digits) > 1 => x[1].digits[1] # 0)}}

(***************************************************************************)
(* C17.  getTensorFilename(id) returns the value of the environment        *)
(* variable TENSOR<id> when it is set, and then leaves every object and    *)
(* handle as it was; when the variable is not set the call ends the        *)
(* process with a fatal diagnostic and returns nothing.                    *)
(***************************************************************************)
C17_FilenameFromEnvironment ==
    [][last'.op = "getTensorFilename" =>
          LET id == last'.args[1]
          IN  IF TensorVarValues(id) # {}
              THEN /\ last'.status = "return"
                   /\ last'.fname \in TensorVarValues(id)
                   /\ running'
                   /\ UNCHANGED <<heap, handles, inserted, nextLog>>
              ELSE /\ last'.status = "fatal"
                   /\ last'.fname = "none"
                   /\ ~running']_vars

C17_Witness ==
    /\ running
    /\ last.op = "getTensorFilename"
    /\ last.args = <<10>>
    /\ last.fname = "sym.mtx"
    /\ handles # {}

(***************************************************************************)
(* C16.  sparseValues, sparsePositions and sparseCoordinates return an     *)
(* alias: both pointers of the descriptor are the storage instance's own   *)
(* array (the value array, or the overhead array of the level asked for),  *)
(* the offset is 0, the stride 1, the size the length the array has at the *)
(* call, and the elements seen are the array's.  The call leaves every     *)
(* object as it was.  The descriptor passes ASSERT_NO_STRIDE.              *)
(***************************************************************************)
C16_AccessorsAlias ==
    [][(/\ running'
        /\ last'.op \in {"sparseValues", "sparsePositions", "sparseCoordinates"}) =>
          LET t == last'.ptr
              own == CASE last'.op = "sparseValues" ->
                            [ptr |-> ArrayOf(t, "values", 0),
                             mem |-> [i \in 1..Len(heap[t].elems) |->
                                         heap[t].elems[i][2]]]
                       [] last'.op = "sparsePositions" ->
                            [ptr |-> ArrayOf(t, "positions", last'.args[1]),
                             mem |-> StorageGetPositions(heap[t], last'.args[1])]
                       [] last'.op = "sparseCoordinates" ->
                            [ptr |-> ArrayOf(t, "coordinates", last'.args[1]),
                             mem |-> StorageGetCoordinates(heap[t], last'.args[1])]
          IN  /\ last'.out.basePtr = own.ptr
              /\ last'.out.dataPtr = own.ptr
              /\ last'.out.offset = 0
              /\ last'.out.stride = 1
              /\ last'.out.size = Len(own.mem)
              /\ last'.out.data = own.mem
              /\ ASSERT_NO_STRIDE(last'.out)
              /\ heap' = heap
              /\ handles' = handles]_vars

C16_Witness ==
    /\ running
    /\ last.op = "sparsePositions"
    /\ last.args = <<1>>
    /\ heap[last.ptr].elems = << <<<<0, 1>>, 5>>, <<<<1, 2>>, 7>> >>
    /\ last.out.dataPtr = ArrayOf(last.ptr, "positions", 1)
    /\ last.out.data = <<0, 1, 2>>
    /\ last.out.size = 3

(***************************************************************************)
(* C18.  A getNext call that returns the continue flag has written the     *)
(* coordinates of the next element of the iterator's list into the first   *)
(* rank slots of the coordinate buffer (rank being the buffer's size) and  *)
(* its value into the value slot, and nothing else; the k-th call on an    *)
(* iterator delivers the k-th element of the list, so N calls deliver the  *)
(* N elements in list order, each once.  A call that returns the stop flag *)
(* leaves the coordinate and value slots as they were.                     *)
(***************************************************************************)
C18_GetNextCopiesOut ==
    [][(running' /\ last'.op = "getNext") =>
          LET i == last'.ptr
              k == Len(nextLog'[i])
              cref == last'.args[1]
              vref == last'.args[2]
              rank == cref.size
              list == heap[heap[i].coo].elems
          IN  IF last'.flag
              THEN /\ k <= Len(list)
                   /\ \A d \in 1..rank :
                          last'.out.data[cref.offset + d] = list[k][1][d]
                   /\ \A j \in 1..Len(cref.data) :
                          (j <= cref.offset \/ j > cref.offset + rank) =>
                              last'.out.data[j] = cref.data[j]
                   /\ Len(last'.out.data) = Len(cref.data)
                   /\ last'.val = list[k][2]
              ELSE /\ last'.out = cref
                   /\ last'.val = vref.data[vref.offset + 1]]_vars

C18_Witness ==
    /\ running
    /\ last.op = "getNext"
    /\ last.flag
    /\ Len(nextLog[last.ptr]) = 2
    /\ Len(heap[heap[last.ptr].coo].elems) = 2
    /\ last.out.data = <<9, 0, 2>>
    /\ last.val = 7

(***************************************************************************)
(* C19.  The two dispatchers accept the same triples and bind them alike:  *)
(* a call of either one ends in "unsupported combination of types" exactly *)
(* when the other one does on the same three tags, and a call that         *)
(* reaches a specialization reaches one with the position, coordinate and  *)
(* value types the other one binds to the triple.                          *)
(***************************************************************************)
OtherDispatcher ==
    IF call.entry = "newSparseTensor"
    THEN newSparseTensorFromReaderDispatch(call.posTp, call.crdTp, call.valTp)
    ELSE newSparseTensorDispatch(call.posTp, call.crdTp, call.valTp, "kEmpty")

C19_DispatchersAgree ==
    res.status # "pending" =>
        /\ (res = UnsupportedCombination) <=> (OtherDispatcher = UnsupportedCombination)
        /\ res.status = "return" =>
              /\ OtherDispatcher.status = "return"
              /\ OtherDispatcher.P = res.P
              /\ OtherDispatcher.C = res.C
              /\ OtherDispatcher.V = res.V

C19_Witness ==
    /\ call.entry = "newSparseTensorFromReader"
    /\ call.posTp = "kIndex" /\ call.crdTp = "kU64" /\ call.valTp = "kC32"
    /\ res.status = "return"
    /\ res.P = "uint64_t" /\ res.C = "uint64_t" /\ res.V = "complex32"
    /\ OtherDispatcher.V = "complex32"

(***************************************************************************)
(* C20.  An addElt call whose dim2lvl is a permutation of 0..rank-1 (rank  *)
(* being the size of the dimension-coordinate buffer) appends exactly one  *)
(* element to the list: its level coordinate at position dim2lvl[d] is     *)
(* dimCoords[d] for every d, its value is the value passed.  The elements  *)
(* already in the list stay as they were and the call returns the handle   *)
(* it was given.                                                           *)
(***************************************************************************)
C20_AddEltAppendsMapped ==
    [][(running' /\ last'.op = "addElt") =>
          LET c == last'.ptr
              vref == last'.args[1]
              dimCoordsRef == last'.args[2]
              dim2lvlRef == last'.args[3]
              rank == dimCoordsRef.size
              dimCoords == SubSeq(dimCoordsRef.data, dimCoordsRef.offset + 1,
                                  dimCoordsRef.offset + rank)
              dim2lvl == SubSeq(dim2lvlRef.data, dim2lvlRef.offset + 1,
                                dim2lvlRef.offset + rank)
              before == heap[c].elems
              after == heap'[c].elems
          IN  ({dim2lvl[d] : d \in 1..rank} = 0..(rank - 1)) =>
                  /\ Len(after) = Len(before) + 1
                  /\ SubSeq(after, 1, Len(before)) = before
                  /\ Len(after[Len(after)][1]) = rank
                  /\ \A d \in 1..rank :
                         after[Len(after)][1][dim2lvl[d] + 1] = dimCoords[d]
                  /\ after[Len(after)][2] = vref.data[vref.offset + 1]
                  /\ last'.ret = c
                  /\ \A a \in Addr \ {c} : heap'[a] = heap[a]]_vars

C20_Witness ==
    /\ running
    /\ last.op = "addElt"
    /\ last.args[3].data = <<1, 0>>
    /\ last.ret = last.ptr
    /\ heap[last.ptr].elems = << <<<<0, 1>>, 5>>, <<<<1, 0>>, 7>> >>

(***************************************************************************)
(* C21.  _mlir_ciface_newSparseTensor resolves the type tags before the    *)
(* action tag.  With a supported triple and an action tag outside the      *)
(* seven actions the call ends in the fatal "unknown action" diagnostic    *)
(* and returns nothing; with an unsupported triple it ends in the          *)
(* "unsupported combination of types" diagnostic whatever the action tag   *)
(* is.  A call that returns has run the body of the first CASE whose tags  *)
(* match and of no other, with the action that was asked for.              *)
(***************************************************************************)
C21_TypesBeforeAction ==
    (res.status # "pending" /\ call.entry = "newSparseTensor") =>
        /\ (CallTriple \in SupportedTriples /\ call.action \notin Actions) =>
              /\ res.status = "fatal"
              /\ res.msg = "unknown action"
              /\ res.case = 0
              /\ res.P = "none" /\ res.C = "none" /\ res.V = "none"
        /\ CallTriple \notin SupportedTriples =>
              /\ res.status = "fatal"
              /\ res.msg = "unsupported combination of types"
        /\ res.status = "return" =>
              /\ call.action \in Actions
              /\ res.action = call.action
              /\ CaseMatches(newSparseTensorCases[res.case],
                             CallTriple[1], CallTriple[2], CallTriple[3])
              /\ \A i \in 1..Len(newSparseTensorCases) :
                     CaseMatches(newSparseTensorCases[i],
                                 CallTriple[1], CallTriple[2], CallTriple[3])
                         => i = res.case

C21_Witness ==
    /\ call.entry = "newSparseTensor"
    /\ call.posTp = "kU16" /\ call.crdTp = "kU16" /\ call.valTp = "kI8"
    /\ call.action = "kBad"
    /\ res.status = "fatal"
    /\ res.msg = "unknown action"

====
